---- MODULE Spec2Model ----
(***************************************************************************)
(* Model of the arb-scanner pipeline (starsnipe407/arb-scanner):           *)
(*   calculator  - src/src/calculator/index.ts                             *)
(*   retry       - src/unnamed/part_002 (utils/helpers.ts)                 *)
(*   errors      - src/src/utils/errors.ts                                 *)
(*   adapters    - src/src/adapters/kalshi.ts, src/unnamed/part_009        *)
(*   alerts      - src/unnamed/part_007 (services/alerts.ts)               *)
(*   worker      - src/src/services/queue.ts                               *)
(*                                                                         *)
(* Each component has its own specification (SpecCalc, SpecRetry, ...)     *)
(* over the shared variable list; a specification leaves the variables of  *)
(* the other components at their idle values.                              *)
(*                                                                         *)
(* Decimals (decimal.js values) are integers counted in units of 10^-4:    *)
(* ONE is 1.0000.  Prices of the model have at most two decimals and fee   *)
(* rates two, so sums and products are exact at four decimals, as they are *)
(* in decimal.js.  A quotient is rounded by decimal.js to Precision        *)
(* significant digits; it is modelled digit by digit (DecDivide).          *)
(***************************************************************************)
EXTENDS Integers, Sequences, FiniteSets, TLC

VARIABLES
    \* ---- calculator (ArbitrageCalculator.findArbitrageOpportunities)
    calcMatches,    \* the MarketMatch[] argument
    calcResult,     \* the returned ArbitrageOpportunity[]
    calcPc,         \* "idle" | "ready" | "done"
    \* ---- retry driver around an adapter's fetchMarkets operation
    rtOpts,         \* RetryOptions and the platform of the adapter
    rtI,            \* the loop variable i of retryWithBackoff
    rtPc,           \* "idle" | "call" | "returned" | "threw"
    rtRaws,         \* what each HTTP attempt met, in order
    rtSleeps,       \* the delays slept, in order (ms)
    rtOutcome,      \* the value returned or the error thrown by the driver
    \* ---- one adapter call: an attempt of fetchMarkets or a single-market fetch
    adCall,         \* [platform, op, limit]
    adRaw,          \* what the HTTP request met
    adPayload,      \* the items of a schema-valid response body
    adResult,       \* markets / market / null / thrown error
    adPc,           \* "idle" | "ready" | "done"
    \* ---- worker, scan job, alert service and cache
    alertCfg,       \* CONFIG.alerts
    now,            \* wall clock, seconds
    cache,          \* Redis keys: set of [key, value, ttl, expiresAt]
    postCount,      \* webhook POSTs issued so far
    lastSend,       \* the most recent sendArbitrageAlert call
                    \* [pair, time, posted, outcome, prevOk, job]
    okPostAt,       \* per (idA, idB): time of the last successful POST, or -1
    redisUp,        \* FALSE while Redis commands fail
    scData,         \* job.data [platformA, platformB, limit]
    scFetch,        \* what fetchMarketsWithCache did for each side of the job
    scJob,          \* number of the scan job being processed (0: none yet)
    scPc,           \* position of processScanJob
    scMarkets,      \* [A, B]: the market lists fetched
    scMatches,      \* matcher.findMatches result
    scOpps,         \* calculator result
    scAlertable,    \* opportunities.filter(meetsAlertThreshold)
    scIdx,          \* opportunities of the batch already handed to sendArbitrageAlert
    scResult,       \* the ScanResult returned, or the failure
    scProgress,     \* the last job.updateProgress of the job being processed
    \* ---- matcher (MarketMatcher.findMatches)
    mtA,            \* marketsA
    mtB,            \* marketsB
    mtI,            \* markets of A already processed by the loop
    mtMatches,      \* the matches array
    mtFrom,         \* for each match, the index in A of the market it was built for
    mtPc,           \* "idle" | "loop" | "done"
    \* ---- a client of the Cache class
    kvLast,         \* the most recent Cache call and what it returned
    kvExpect,       \* per key: what the contract says the key holds
    \* ---- a market list through the cache (Cache.set, Cache.get, deserializeMarkets)
    rtpIn,          \* the StandardMarket[] handed to Cache.set
    rtpOut,         \* what Cache.get and deserializeMarkets gave back
    rtpPc,          \* "idle" | "ready" | "cached" | "read"
    \* ---- the scan queue (BullMQ Queue 'arbitrage-scan') and its worker
    quNow,          \* Date.now(), milliseconds
    quJobs,         \* the jobs the queue keeps, in whatever state
    quRepeat,       \* the repeatable enrolments, keyed by name and every
    quAdds,         \* addScanJob calls so far: the id of the handle returned,
                    \* and whether the call put a job in the queue
    quEnrols,       \* addRecurringScanJob calls so far
    quFetching,     \* sides of the active job whose fetch is in flight
    \* ---- the scheduler process: its worker running processScanJob, the alert
    \* ---- batch of the job, and the shutdown handler
    wkNow,          \* Date.now(), milliseconds
    wkJobs,         \* jobs the worker has taken so far
    wkPc,           \* 0: no active job; else the step of processScanJob to run next
    wkFetching,     \* sides of Promise.all whose fetch is in flight
    wkOrphans,      \* fetches still in flight after Promise.all rejected
    wkLog,          \* what the current (or last) attempt has done, in order
    wkBatch,        \* alertableOpportunities.length
    wkIdx,          \* opportunities of the batch the loop of sendAlerts is done with
    wkAlert,        \* "none" | "next" | "posting" | "sleeping"
    wkPosts,        \* webhook POSTs of the batch: [idx, start, end] (end -1: in flight)
    wkOutcome,      \* "none" | "completed" | "failed"
    wkOnClosed,     \* a cache or queue command was issued on a closed connection
    shPc,           \* "running" | "closingWorker" | "closingRedis" | "exited"
    shSignal,       \* the signal received: [kind, at, jobs, inBatch]
    cnOpen,         \* the Redis connections that are open
    \* ---- a platform's rate limiter (Bottleneck) and the requests of its adapter
    lmPlatform,     \* the platform whose limiter is followed
    lmNow,          \* milliseconds since the limiter was created
    lmRunning,      \* requests in flight
    lmQueued,       \* requests handed to schedule() and not started yet
    lmBackoff,      \* failed attempts sleeping in retryWithBackoff
    lmReservoir,    \* tokens left in the reservoir
    lmSince,        \* ms since the last start, counted up to minTime
    lmGaps,         \* the gaps between the most recent starts, newest first,
                    \* each counted up to minTime
    lmWindowStarts, \* starts since the last reservoir refresh
    \* ---- processScanJob run again and again by one worker
    rrCfg,          \* CONFIG.alerts
    rrNow,          \* wall clock, seconds
    rrCache,        \* Redis keys
    rrRanker,       \* what the ranker of the matcher answers for a target market
    rrCount,        \* runs so far
    rrRuns,         \* the last two runs: what each read, did and returned
    \* ---- one scan job through its attempts, and the HTTP requests made for it
    jaData,         \* job.data [platformA, platformB]
    jaState,        \* "none" | "waiting" | "active" | "delayed" | "completed" | "failed"
    jaStarts,       \* times the worker has started the job
    jaFetches,      \* adapter.fetchMarkets calls in their retry loop:
                    \* [attempt, side, platform, i]
    jaCached,       \* platforms whose markets:<P> key is in the cache
    jaHits,         \* <<attempt, platform>>: the attempt found markets:<platform>
    jaRequests,     \* per <<attempt, platform>>: HTTP requests issued so far
    \* ---- the signal handlers and the stats interval of the scheduler process
    sdRuns,         \* the shutdown() invocations so far: [signal, pc]
    sdJobActive,    \* the worker is processing a job
    sdRedis,        \* the client of redis.ts: "none" | "open" | "quitting" | "closed"
    sdStats,        \* the stats callback: "idle" | "getQueueStats" | "dbsize" | "info"
    sdTicks,        \* times the stats interval has fired
    sdWorkerCloseCalls, \* worker.close() calls so far
    sdCloseRedisCalls,  \* closeRedis() calls so far
    sdAfterQuit,    \* commands started on the client after closeRedis() began
    sdExited        \* process.exit(0) was called

calcVars == <<calcMatches, calcResult, calcPc>>
retryVars == <<rtOpts, rtI, rtPc, rtRaws, rtSleeps, rtOutcome>>
adapterVars == <<adCall, adRaw, adPayload, adResult, adPc>>
alertVars == <<alertCfg, now, cache, postCount, lastSend, okPostAt, redisUp>>
scanVars == <<scJob, scPc, scMarkets, scMatches, scOpps, scAlertable, scIdx, scResult,
              scData, scFetch, scProgress>>
matchVars == <<mtA, mtB, mtI, mtMatches, mtFrom, mtPc>>
\* the components added after the scan pipeline
kvVars == <<kvLast, kvExpect>>
rtpVars == <<rtpIn, rtpOut, rtpPc>>
queueVars == <<quNow, quJobs, quRepeat, quAdds, quEnrols, quFetching>>
workerVars == <<wkNow, wkJobs, wkPc, wkFetching, wkOrphans, wkLog, wkBatch, wkIdx,
                wkAlert, wkPosts, wkOutcome, wkOnClosed, shPc, shSignal, cnOpen>>
limVars == <<lmPlatform, lmNow, lmRunning, lmQueued, lmBackoff, lmReservoir, lmSince, lmGaps,
             lmWindowStarts>>
rerunVars == <<rrCfg, rrNow, rrCache, rrRanker, rrCount, rrRuns>>
attemptVars == <<jaData, jaState, jaStarts, jaFetches, jaCached, jaHits, jaRequests>>
stopVars == <<sdRuns, sdJobActive, sdRedis, sdStats, sdTicks, sdWorkerCloseCalls,
              sdCloseRedisCalls, sdAfterQuit, sdExited>>
extraVars == <<workerVars, limVars, rerunVars, attemptVars, stopVars>>
laterVars == <<kvVars, rtpVars, queueVars, extraVars>>
moreVars == <<matchVars, laterVars>>

vars == <<calcMatches, calcResult, calcPc,
          rtOpts, rtI, rtPc, rtRaws, rtSleeps, rtOutcome,
          adCall, adRaw, adPayload, adResult, adPc,
          alertCfg, now, cache, postCount, lastSend, okPostAt, redisUp, scData, scFetch,
          scJob, scPc, scMarkets, scMatches, scOpps, scAlertable, scIdx, scResult,
          scProgress,
          mtA, mtB, mtI, mtMatches, mtFrom, mtPc,
          kvLast, kvExpect, rtpIn, rtpOut, rtpPc,
          quNow, quJobs, quRepeat, quAdds, quEnrols, quFetching,
          wkNow, wkJobs, wkPc, wkFetching, wkOrphans, wkLog, wkBatch, wkIdx,
          wkAlert, wkPosts, wkOutcome, wkOnClosed, shPc, shSignal, cnOpen,
          lmPlatform, lmNow, lmRunning, lmQueued, lmBackoff, lmReservoir, lmSince, lmGaps,
          lmWindowStarts, rrCfg, rrNow, rrCache, rrRanker, rrCount, rrRuns,
          jaData, jaState, jaStarts, jaFetches, jaCached, jaHits, jaRequests,
          sdRuns, sdJobActive, sdRedis, sdStats, sdTicks, sdWorkerCloseCalls,
          sdCloseRedisCalls, sdAfterQuit, sdExited>>

\* the values a component's variables keep in the other specifications
CalcIdle == calcMatches = <<>> /\ calcResult = <<>> /\ calcPc = "idle"

RetryIdle ==
    /\ rtOpts = [maxRetries |-> 0, initialDelay |-> 0, maxDelay |-> 0,
                 shouldRetry |-> "default", platform |-> "none"]
    /\ rtI = 0 /\ rtPc = "idle" /\ rtRaws = <<>> /\ rtSleeps = <<>>
    /\ rtOutcome = [kind |-> "none"]

AdapterIdle ==
    /\ adCall = [platform |-> "none", op |-> "none", limit |-> 0]
    /\ adRaw = [kind |-> "none"]
    /\ adPayload = <<>>
    /\ adResult = [kind |-> "none"]
    /\ adPc = "idle"

NoSend == [pair |-> <<"none", "none">>, time |-> 0, posted |-> FALSE,
           outcome |-> "none", prevOk |-> 0 - 1, job |-> 0]

ScanIdle ==
    /\ alertCfg = [enabled |-> FALSE, webhook |-> FALSE, minProfitPercent |-> 0,
                   minProfitAmount |-> 0, cooldownMinutes |-> 0]
    /\ now = 0 /\ cache = {} /\ postCount = 0 /\ lastSend = NoSend
    /\ okPostAt = <<>> /\ redisUp = TRUE
    /\ scData = [platformA |-> "none", platformB |-> "none", limit |-> 0]
    /\ scFetch = <<>>
    /\ scJob = 0 /\ scPc = "off" /\ scMarkets = <<>> /\ scMatches = <<>>
    /\ scOpps = <<>> /\ scAlertable = <<>> /\ scIdx = 0
    /\ scResult = [kind |-> "none"]
    /\ scProgress = 0

MatchIdle ==
    /\ mtA = <<>> /\ mtB = <<>> /\ mtI = 0 /\ mtMatches = <<>> /\ mtFrom = <<>>
    /\ mtPc = "idle"

\* the keys and the JSON values a client of the Cache stores: an object, and
\* the values that are falsy in JavaScript
KvKeys == {<<"test-key">>, <<"opportunities:latest">>}
KvNull == [type |-> "null", text |-> "null"]
KvValues ==
    {[type |-> "object", text |-> "{hello:world}"],
     [type |-> "number", text |-> "0"],
     [type |-> "string", text |-> "\"\""],
     [type |-> "boolean", text |-> "false"],
     KvNull}

\* a call: what it returned (value of a get, flag of an exists) and what the
\* contract said it returns (want, wantFlag) when it was made
KvCall(op, key, value, flag, want, wantFlag) ==
    [op |-> op, key |-> key, value |-> value, flag |-> flag,
     want |-> want, wantFlag |-> wantFlag]
KvNoCall == KvCall("none", <<"none">>, KvNull, FALSE, KvNull, FALSE)
KvUnset == [set |-> FALSE, value |-> KvNull, until |-> 0]

KvIdle ==
    /\ kvLast = KvNoCall
    /\ kvExpect = [k \in KvKeys |-> KvUnset]

\* what the contract says get(k) and exists(k) return now
KvLive(k) == kvExpect[k].set /\ now < kvExpect[k].until
KvExpectedGet(k) == IF KvLive(k) THEN kvExpect[k].value ELSE KvNull

RoundTripIdle == rtpIn = <<>> /\ rtpOut = <<>> /\ rtpPc = "idle"

QueueIdle ==
    /\ quNow = 0 /\ quJobs = {} /\ quRepeat = {} /\ quAdds = <<>>
    /\ quEnrols = <<>> /\ quFetching = {}

NoSignal == [kind |-> "none", at |-> 0, jobs |-> 0, inBatch |-> FALSE]

WorkerIdle ==
    /\ wkNow = 0 /\ wkJobs = 0 /\ wkPc = 0 /\ wkFetching = {} /\ wkOrphans = {}
    /\ wkLog = <<>> /\ wkBatch = 0 /\ wkIdx = 0 /\ wkAlert = "none"
    /\ wkPosts = <<>> /\ wkOutcome = "none" /\ wkOnClosed = FALSE
    /\ shPc = "off" /\ shSignal = NoSignal /\ cnOpen = {}

LimiterIdle ==
    /\ lmPlatform = "none" /\ lmNow = 0 /\ lmRunning = 0 /\ lmQueued = 0
    /\ lmBackoff = 0 /\ lmReservoir = 0 /\ lmSince = 0 /\ lmGaps = <<>>
    /\ lmWindowStarts = 0

RerunIdle ==
    /\ rrCfg = [enabled |-> FALSE] /\ rrNow = 0 /\ rrCache = {} /\ rrRanker = <<>>
    /\ rrCount = 0 /\ rrRuns = <<>>

AttemptsIdle ==
    /\ jaData = [platformA |-> "none", platformB |-> "none"] /\ jaState = "none"
    /\ jaStarts = 0 /\ jaFetches = {} /\ jaCached = {} /\ jaHits = {}
    /\ jaRequests = <<>>

StopIdle ==
    /\ sdRuns = <<>> /\ sdJobActive = FALSE /\ sdRedis = "none" /\ sdStats = "idle"
    /\ sdTicks = 0 /\ sdWorkerCloseCalls = 0 /\ sdCloseRedisCalls = 0
    /\ sdAfterQuit = {} /\ sdExited = FALSE

ExtraIdle == WorkerIdle /\ LimiterIdle /\ RerunIdle /\ AttemptsIdle /\ StopIdle

LaterIdle == KvIdle /\ RoundTripIdle /\ QueueIdle /\ ExtraIdle

MoreIdle == MatchIdle /\ LaterIdle

(***************************************************************************)
(* Generic helpers                                                         *)
(***************************************************************************)
RECURSIVE Pow10(_)
Pow10(n) == IF n = 0 THEN 1 ELSE 10 * Pow10(n - 1)

RECURSIVE Pow2(_)
Pow2(n) == IF n = 0 THEN 1 ELSE 2 * Pow2(n - 1)

Min(a, b) == IF a <= b THEN a ELSE b

RECURSIVE FlattenSeq(_)
FlattenSeq(ss) == IF ss = <<>> THEN <<>> ELSE Head(ss) \o FlattenSeq(Tail(ss))

MapSeq(Op(_), s) == [i \in 1..Len(s) |-> Op(s[i])]

SeqsUpTo(S, n) == UNION {[1..k -> S] : k \in 0..n}

(***************************************************************************)
(* decimal.js arithmetic                                                   *)
(***************************************************************************)
\* 1.0000 in units of 10^-4
ONE == 100 * 100

\* a price given in cents (two decimals)
Cents(c) == c * 100

\* decimal.js default: 20 significant digits, ROUND_HALF_UP
Precision == 20

\* decimal digits of a natural number, most significant first
RECURSIVE DigitsOf(_)
DigitsOf(n) == IF n < 10 THEN <<n>> ELSE Append(DigitsOf(n \div 10), n % 10)

RECURSIVE StripTrailingZeros(_)
StripTrailingZeros(ds) ==
    IF ds # <<>> /\ ds[Len(ds)] = 0
    THEN StripTrailingZeros(SubSeq(ds, 1, Len(ds) - 1))
    ELSE ds

\* n digits of the expansion of r / b, for 0 <= r < b
RECURSIVE LongDiv(_, _, _)
LongDiv(r, b, n) ==
    IF n = 0 THEN <<>>
    ELSE <<(r * 10) \div b>> \o LongDiv((r * 10) % b, b, n - 1)

\* the remainder left after those n digits
RECURSIVE RemAfter(_, _, _)
RemAfter(r, b, n) == IF n = 0 THEN r ELSE RemAfter((r * 10) % b, b, n - 1)

\* add one unit in the last place; a carry out of the first digit is digit 10
RECURSIVE IncLast(_)
IncLast(ds) ==
    LET n == Len(ds) IN
    IF n = 1 THEN <<ds[1] + 1>>
    ELSE IF ds[n] < 9 THEN [ds EXCEPT ![n] = ds[n] + 1]
    ELSE Append(IncLast(SubSeq(ds, 1, n - 1)), 0)

\* number of leading zero digits of a / b after the point, for 0 < a < b
RECURSIVE LeadZeros(_, _)
LeadZeros(a, b) == IF a * 10 >= b THEN 0 ELSE 1 + LeadZeros(a * 10, b)

DecZero == [inf |-> FALSE, digits |-> <<>>, exp |-> 0]
DecInfinity == [inf |-> TRUE, digits |-> <<>>, exp |-> 0]

\* round half up (the decimal.js default): the variant RoundsUpTrunc truncates
RoundsUpTrunc(rem, b) == FALSE
RoundsUp(rem, b) == 2 * rem >= b

\* Decimal.dividedBy for integers a >= 0, b >= 0 in the same unit: the quotient
\* as Precision significant digits d1 d2 ... (d1.d2... * 10^exp), rounded
\* half up, trailing zeros dropped; x / 0 is Infinity for x > 0.
DecDivide(a, b) ==
    IF b = 0 THEN DecInfinity
    ELSE IF a = 0 THEN DecZero
    ELSE
      LET big  == a >= b
          ip   == DigitsOf(a \div b)
          z    == IF big THEN 0 ELSE LeadZeros(a, b)
          r0   == IF big THEN a % b ELSE a * Pow10(z)
          n    == IF big THEN Precision - Len(ip) ELSE Precision
          raw  == IF big THEN ip \o LongDiv(r0, b, n) ELSE LongDiv(r0, b, n)
          e0   == IF big THEN Len(ip) - 1 ELSE 0 - (z + 1)
          rem  == RemAfter(r0, b, n)
          inc  == IF RoundsUp(rem, b) THEN IncLast(raw) ELSE raw
          ovf  == inc[1] = 10
          ds   == IF ovf THEN <<1>> ELSE inc
      IN [inf |-> FALSE,
          digits |-> StripTrailingZeros(ds),
          exp |-> IF ovf THEN e0 + 1 ELSE e0]

\* Decimal.times(100) of a quotient: exact, shifts the exponent
DecTimes100(d) == IF d.inf \/ d.digits = <<>> THEN d ELSE [d EXCEPT !.exp = d.exp + 2]

\* exact product of a digit string by a natural number (schoolbook, right to left)
RECURSIVE MulDigits(_, _, _)
MulDigits(ds, n, carry) ==
    IF ds = <<>> THEN (IF carry = 0 THEN <<>> ELSE DigitsOf(carry))
    ELSE LET d == ds[Len(ds)]
             v == d * n + carry
         IN Append(MulDigits(SubSeq(ds, 1, Len(ds) - 1), n, v \div 10), v % 10)

\* the exact value d * n of a finite decimal d and a natural n > 0
DecTimesInt(d, n) ==
    IF d.inf \/ d.digits = <<>> \/ n = 0 THEN d
    ELSE LET p == MulDigits(d.digits, n, 0)
         IN [inf |-> FALSE,
             digits |-> StripTrailingZeros(p),
             exp |-> d.exp + (Len(p) - Len(d.digits))]

\* a natural number as a decimal
DecOfInt(n) ==
    IF n = 0 THEN DecZero
    ELSE [inf |-> FALSE, digits |-> StripTrailingZeros(DigitsOf(n)),
          exp |-> Len(DigitsOf(n)) - 1]

(***************************************************************************)
(* Markets and matches                                                     *)
(***************************************************************************)
Platforms == {"POLYMARKET", "KALSHI", "MANIFOLD"}

\* a StandardMarket (types.ts): id, platform, title, outcomes [name, price]
StandardMarket(id, platform, title, names, prices) ==
    [id |-> id, platform |-> platform, title |-> title,
     outcomes |-> [i \in 1..Len(names) |-> [name |-> names[i], price |-> prices[i]]]]

DefaultNames(n) ==
    [i \in 1..n |-> IF i = 1 THEN "Yes" ELSE IF i = 2 THEN "No" ELSE "Other"]

Market(id, platform, prices) ==
    StandardMarket(id, platform, "Title", DefaultNames(Len(prices)), prices)

Match(a, b) == [marketA |-> a, marketB |-> b, score |-> 88, matchedBy |-> "fuzzy"]

(***************************************************************************)
(* Calculator: src/src/calculator/index.ts                                 *)
(***************************************************************************)
\* platformFees[].tradingFee, in hundredths (0.02 -> 2)
platformFees ==
    [POLYMARKET |-> 2, KALSHI |-> 7, MANIFOLD |-> 0]

getFeeRateSwapped(platform) ==
    IF platform = "POLYMARKET" THEN 7 ELSE IF platform = "KALSHI" THEN 2 ELSE 0
getFeeRate(platform) ==
    IF platform \in DOMAIN platformFees THEN platformFees[platform] ELSE 0

\* Decimal.times(rate) for a price in units of 10^-4 and a rate in hundredths
TimesRate(price, rate) == (price * rate) \div 100

NoOpp == [none |-> TRUE]

\* calculateArbitrage: the opportunity of one buy-direction, or null (NoOpp)
calculateArbitrageNoShortCircuit(marketA, marketB, ia, ib) ==
    LET priceA == marketA.outcomes[ia].price
        priceB == marketB.outcomes[ib].price
        totalCost == priceA + priceB
        feesA == TimesRate(priceA, getFeeRate(marketA.platform))
        feesB == TimesRate(priceB, getFeeRate(marketB.platform))
        totalFees == feesA + feesB
        netCost == totalCost + totalFees
        profitMargin == ONE - netCost
        isProfitable == profitMargin >= 0
    IN [none |-> FALSE, marketA |-> marketA, marketB |-> marketB,
        outcomeA |-> marketA.outcomes[ia].name,
        outcomeB |-> marketB.outcomes[ib].name,
        priceA |-> priceA, priceB |-> priceB, totalCost |-> totalCost,
        feesA |-> feesA, feesB |-> feesB, totalFees |-> totalFees,
        netCost |-> netCost, profitMargin |-> profitMargin,
        roi |-> IF isProfitable
                THEN DecTimes100(DecDivide(profitMargin, netCost))
                ELSE DecZero,
        isProfitable |-> isProfitable]
calculateArbitrage(marketA, marketB, ia, ib) ==
    LET priceA == marketA.outcomes[ia].price
        priceB == marketB.outcomes[ib].price
        totalCost == priceA + priceB
        feesA == TimesRate(priceA, getFeeRate(marketA.platform))
        feesB == TimesRate(priceB, getFeeRate(marketB.platform))
        totalFees == feesA + feesB
        netCost == totalCost + totalFees
        profitMargin == ONE - netCost
        isProfitable == profitMargin > 0
    IN IF totalCost >= ONE THEN NoOpp
       ELSE [none |-> FALSE, marketA |-> marketA, marketB |-> marketB,
             outcomeA |-> marketA.outcomes[ia].name,
             outcomeB |-> marketB.outcomes[ib].name,
             priceA |-> priceA, priceB |-> priceB, totalCost |-> totalCost,
             feesA |-> feesA, feesB |-> feesB, totalFees |-> totalFees,
             netCost |-> netCost, profitMargin |-> profitMargin,
             roi |-> IF isProfitable
                     THEN DecTimes100(DecDivide(profitMargin, netCost))
                     ELSE DecZero,
             isProfitable |-> isProfitable]

\* analyzeMarketPair: both buy-directions of a binary pair (indices are 1-based)
analyzeMarketPair(match) ==
    LET a == match.marketA
        b == match.marketB
        opp1 == calculateArbitrage(a, b, 1, 2)
        opp2 == calculateArbitrage(a, b, 2, 1)
    IN IF Len(a.outcomes) # 2 \/ Len(b.outcomes) # 2 THEN <<>>
       ELSE (IF opp1.none THEN <<>> ELSE <<opp1>>)
            \o (IF opp2.none THEN <<>> ELSE <<opp2>>)

findArbitrageOpportunities(matches) ==
    LET opportunities == FlattenSeq(MapSeq(analyzeMarketPair, matches))
    IN SelectSeq(opportunities, LAMBDA opp : opp.isProfitable)

----
\* Inputs of the calculator specification
MaxMatches == 2

\* price grid (cents): the test scenarios' prices and the boundaries 0, 1
PriceGrid == {Cents(c) : c \in {0, 38, 45, 49, 50, 55, 100}}

OutcomeVectors ==
    {<<p, q>> : p \in PriceGrid, q \in PriceGrid}
      \cup {<<Cents(50)>>, <<Cents(30), Cents(30), Cents(30)>>}

GridMatches ==
    {Match(Market("a1", pa, va), Market("b1", pb, vb)) :
        pa \in Platforms, pb \in Platforms,
        va \in OutcomeVectors, vb \in OutcomeVectors}

\* src/unnamed/part_008 scenario1_clearArbitrage, scenario2_falsePositive,
\* a pair with a three-way market, and a pair whose netCost is exactly 1
ScenarioMatches ==
    { Match(Market("POLY_123", "POLYMARKET", <<Cents(45), Cents(55)>>),
            Market("MANI_456", "MANIFOLD", <<Cents(60), Cents(38)>>)),
      Match(Market("POLY_789", "POLYMARKET", <<Cents(50), Cents(49)>>),
            Market("KALSHI_101", "KALSHI", <<Cents(51), Cents(48)>>)),
      Match(Market("POLY_3", "POLYMARKET", <<Cents(30), Cents(30), Cents(30)>>),
            Market("MANI_3", "MANIFOLD", <<Cents(20), Cents(20)>>)),
      Match(Market("POLY_E", "POLYMARKET", <<Cents(50), Cents(50)>>),
            Market("MANI_E", "MANIFOLD", <<Cents(49), Cents(49)>>)) }

InitCalc ==
    /\ RetryIdle /\ AdapterIdle /\ ScanIdle /\ MoreIdle
    /\ calcMatches \in SeqsUpTo(ScenarioMatches, MaxMatches)
                         \cup {<<m>> : m \in GridMatches}
    /\ calcResult = <<>>
    /\ calcPc = "ready"

RunCalculator ==
    /\ calcPc = "ready"
    /\ calcResult' = findArbitrageOpportunities(calcMatches)
    /\ calcPc' = "done"
    /\ UNCHANGED calcMatches
    /\ UNCHANGED <<retryVars, adapterVars, alertVars, scanVars, moreVars>>

NextCalc == RunCalculator

SpecCalc == InitCalc /\ [][NextCalc]_vars

(***************************************************************************)
(* Error taxonomy: src/src/utils/errors.ts                                 *)
(***************************************************************************)
\* Values a try block can throw.  status 0 and retryAfter 0 stand for
\* "undefined"; data is the payload a ValidationError carries.
AxiosError(status, code, retryAfter) ==
    [cls |-> "AxiosError", message |-> "request failed", isAxiosError |-> TRUE, issues |-> FALSE, isError |-> TRUE,
     status |-> status, code |-> code, retryAfter |-> retryAfter, data |-> "none"]
ZodError ==
    [cls |-> "ZodError", message |-> "zod issues", isAxiosError |-> FALSE, issues |-> TRUE, isError |-> TRUE,
     status |-> 0, code |-> "none", retryAfter |-> 0, data |-> "none"]
PlainError ==
    [cls |-> "Error", message |-> "error", isAxiosError |-> FALSE, issues |-> FALSE, isError |-> TRUE,
     status |-> 0, code |-> "none", retryAfter |-> 0, data |-> "none"]
ThrownValue ==
    [cls |-> "string", message |-> "none", isAxiosError |-> FALSE, issues |-> FALSE, isError |-> FALSE,
     status |-> 0, code |-> "none", retryAfter |-> 0, data |-> "none"]

\* the ScannerError classes: [cls, platform, statusCode, retryAfter, data, cause]
ScannerError(message, cause) ==
    [cls |-> "ScannerError", message |-> message, isAxiosError |-> FALSE, issues |-> FALSE, isError |-> TRUE,
     status |-> 0, code |-> "none", retryAfter |-> 0, data |-> "none",
     platform |-> "none", cause |-> cause.cls]
APIError(message, platform, statusCode, cause) ==
    [cls |-> "APIError", message |-> message, isAxiosError |-> FALSE, issues |-> FALSE, isError |-> TRUE,
     status |-> statusCode, code |-> "none", retryAfter |-> 0, data |-> "none",
     platform |-> platform, cause |-> cause.cls]
RateLimitError(platform, retryAfter, cause) ==
    [cls |-> "RateLimitError", message |-> "Rate limit exceeded", isAxiosError |-> FALSE, issues |-> FALSE, isError |-> TRUE,
     status |-> 429, code |-> "none", retryAfter |-> retryAfter, data |-> "none",
     platform |-> platform, cause |-> cause.cls]
\* the ValidationError class declares data and cause, and no issues property
ValidationError(message, data, cause) ==
    [cls |-> "ValidationError", message |-> message, isAxiosError |-> FALSE, issues |-> FALSE, isError |-> TRUE,
     status |-> 0, code |-> "none", retryAfter |-> 0, data |-> data,
     platform |-> "none", cause |-> cause.cls]

\* error instanceof APIError (RateLimitError extends APIError)
InstanceOfAPIError(e) == e.cls \in {"APIError", "RateLimitError"}

\* APIError.isRetryable
isRetryableNo429(e) == e.status = 0 \/ e.status >= 500
isRetryable(e) ==
    IF e.status = 0 THEN TRUE
    ELSE IF e.status >= 500 THEN TRUE
    ELSE IF e.status = 429 THEN TRUE
    ELSE FALSE

\* classifyError(error, platform)
classifyError(error, platform) ==
    IF error.isAxiosError THEN
        IF error.status = 429 THEN RateLimitError(platform, error.retryAfter, error)
        ELSE IF error.status # 0
             THEN APIError("API request failed", platform, error.status, error)
        ELSE IF error.code \in {"ECONNABORTED", "ETIMEDOUT"}
             THEN APIError("Request timeout", platform, 0, error)
        ELSE APIError("Network error", platform, 0, error)
    ELSE IF error.issues
         THEN ValidationError("Invalid data", "theZodError", error)
    ELSE IF error.isError THEN ScannerError(error.message, error)
    ELSE ScannerError("Unknown error occurred", error)

(***************************************************************************)
(* Retry driver: src/unnamed/part_002 retryWithBackoff, as called by the   *)
(* adapters' fetchMarkets (src/src/adapters/kalshi.ts, src/unnamed/part_009)*)
(***************************************************************************)
MaxRetriesBound == 3

HttpStatuses == {400, 404, 429, 500, 503}

\* What one HTTP attempt of fetchMarkets meets.
RawOutcomes ==
    {[kind |-> "ok", status |-> 200, code |-> "none", retryAfter |-> 0],
     [kind |-> "badSchema", status |-> 200, code |-> "none", retryAfter |-> 0],
     [kind |-> "transformThrows", status |-> 200, code |-> "none", retryAfter |-> 0],
     [kind |-> "timeout", status |-> 0, code |-> "ECONNABORTED", retryAfter |-> 0],
     [kind |-> "network", status |-> 0, code |-> "ECONNREFUSED", retryAfter |-> 0]}
    \cup {[kind |-> "http", status |-> s, code |-> "ERR_BAD_RESPONSE", retryAfter |-> 0] :
             s \in HttpStatuses}
    \cup {[kind |-> "http", status |-> 429, code |-> "ERR_BAD_REQUEST", retryAfter |-> 2]}

\* the payload of a response that fails the schema
BadPayload == "offendingPayload"

\* the value thrown inside the try block of fetchMarkets for a raw outcome:
\*   axios.get rejects / the inner catch wraps the Zod error in a
\*   ValidationError carrying response.data / toStandardMarket throws
ThrownInTry(raw) ==
    CASE raw.kind \in {"http", "timeout", "network"} ->
            AxiosError(raw.status, raw.code, raw.retryAfter)
      [] raw.kind = "badSchema" ->
            ValidationError("Invalid response format", BadPayload, ZodError)
      [] OTHER -> PlainError

\* operation(): the try/catch inside limiter.schedule; every thrown value goes
\* through classifyError in the outer catch
operation(platform, raw, attempt) ==
    IF raw.kind = "ok"
    THEN [ok |-> TRUE, value |-> attempt]
    ELSE [ok |-> FALSE, error |-> classifyError(ThrownInTry(raw), platform)]

\* the shouldRetry option: the default () => true, or the adapters' predicate
shouldRetry(which, error) ==
    IF which = "default" THEN TRUE
    ELSE IF InstanceOfAPIError(error) THEN isRetryable(error)
    ELSE FALSE

\* delay = Math.min(initialDelay * Math.pow(2, i), maxDelay)
backoffDelayUncapped(opts, i) == opts.initialDelay * Pow2(i)
backoffDelay(opts, i) == Min(opts.initialDelay * Pow2(i), opts.maxDelay)

\* if (i === maxRetries - 1) throw error
isLastAttemptOffByOne(opts, i) == i = opts.maxRetries
isLastAttempt(opts, i) == i = opts.maxRetries - 1

RetryOptions ==
    {[maxRetries |-> n, initialDelay |-> d[1], maxDelay |-> d[2],
      shouldRetry |-> w, platform |-> p] :
        n \in 0..MaxRetriesBound,
        d \in {<<1000, 10000>>, <<1000, 1500>>},
        w \in {"default", "adapter"},
        p \in {"Kalshi"}}

InitRetry ==
    /\ CalcIdle /\ AdapterIdle /\ ScanIdle /\ MoreIdle
    /\ rtOpts \in RetryOptions
    /\ rtI = 0
    /\ rtPc = "call"
    /\ rtRaws = <<>>
    /\ rtSleeps = <<>>
    /\ rtOutcome = [kind |-> "none"]

\* the loop condition fails: throw new Error('Retry failed')
RetryLoopExit ==
    /\ rtPc = "call"
    /\ ~(rtI < rtOpts.maxRetries)
    /\ rtPc' = "threw"
    /\ rtOutcome' = [kind |-> "threw", error |-> [PlainError EXCEPT !.message = "Retry failed"]]
    /\ UNCHANGED <<rtOpts, rtI, rtRaws, rtSleeps>>
    /\ UNCHANGED <<calcVars, adapterVars, alertVars, scanVars, moreVars>>

\* one iteration whose call of fn succeeds: return await fn()
RetryAttemptReturns ==
    /\ rtPc = "call"
    /\ rtI < rtOpts.maxRetries
    /\ \E raw \in RawOutcomes :
         LET r == operation(rtOpts.platform, raw, rtI + 1) IN
           /\ r.ok
           /\ rtRaws' = Append(rtRaws, raw)
           /\ rtPc' = "returned"
           /\ rtOutcome' = [kind |-> "returned", value |-> r.value]
    /\ UNCHANGED <<rtOpts, rtI, rtSleeps>>
    /\ UNCHANGED <<calcVars, adapterVars, alertVars, scanVars, moreVars>>

\* one iteration whose call of fn throws: the catch block
RetryAttemptThrows ==
    /\ rtPc = "call"
    /\ rtI < rtOpts.maxRetries
    /\ \E raw \in RawOutcomes :
         LET r == operation(rtOpts.platform, raw, rtI + 1) IN
           /\ ~r.ok
           /\ rtRaws' = Append(rtRaws, raw)
           /\ IF isLastAttempt(rtOpts, rtI) \/ ~shouldRetry(rtOpts.shouldRetry, r.error)
              THEN /\ rtPc' = "threw"
                   /\ rtOutcome' = [kind |-> "threw", error |-> r.error]
                   /\ UNCHANGED <<rtI, rtSleeps>>
              ELSE /\ rtSleeps' = Append(rtSleeps, backoffDelay(rtOpts, rtI))
                   /\ rtI' = rtI + 1
                   /\ UNCHANGED <<rtPc, rtOutcome>>
    /\ UNCHANGED rtOpts
    /\ UNCHANGED <<calcVars, adapterVars, alertVars, scanVars, moreVars>>

NextRetry == RetryLoopExit \/ RetryAttemptReturns \/ RetryAttemptThrows

SpecRetry == InitRetry /\ [][NextRetry]_vars

(***************************************************************************)
(* Adapters: src/src/adapters/kalshi.ts (Kalshi), src/unnamed/part_009     *)
(* lines 1-204 (Manifold) and 355-508 (PolyMarket)                         *)
(***************************************************************************)
MaxItems == 2
MaxLimit == 2

\* an optional field of a response item
Some(v) == [def |-> TRUE, v |-> v]
Undefined == [def |-> FALSE, v |-> 0]

\* id and title of an item: the schemas ask for a string, which may be empty
IdTitles == {<<"m1", "Will it rain">>, <<"", "">>}

\* PolyMarketEventSchema items, outcomes and outcomePrices already JSON.parsed;
\* prices in units of 10^-4
PolyItems ==
    {[id |-> it[1], question |-> it[2], outcomes |-> ns, outcomePrices |-> ps] :
        it \in IdTitles,
        ns \in {<<"Yes", "No">>, <<"A", "B", "C">>, <<"Yes">>},
        ps \in {<<Cents(45), Cents(55)>>, <<Cents(30), Cents(30), Cents(30)>>,
                <<Cents(150), 0 - Cents(50)>>, <<Cents(45)>>}}

\* ManifoldMarketSchema items; probability in units of 10^-4
ManifoldItems ==
    {[id |-> it[1], question |-> it[2], outcomeType |-> ot,
      probability |-> pr, isResolved |-> res] :
        it \in IdTitles,
        ot \in {"BINARY", "MULTIPLE_CHOICE"},
        pr \in {Undefined, Some(0), Some(Cents(65)), Some(ONE), Some(Cents(150))},
        res \in BOOLEAN}

\* KalshiMarketSchema items; asks in cents
KalshiItems ==
    {[ticker |-> it[1], title |-> it[2], market_type |-> mt,
      yes_ask |-> ya, no_ask |-> na] :
        it \in IdTitles,
        mt \in {"binary", "scalar"},
        ya \in {Undefined, Some(0), Some(45), Some(150)},
        na \in {Undefined, Some(0), Some(55)}}

ItemsOf(platform) ==
    CASE platform = "POLYMARKET" -> PolyItems
      [] platform = "MANIFOLD" -> ManifoldItems
      [] platform = "KALSHI" -> KalshiItems

\* the platform name the adapters pass to classifyError
ErrorPlatform(platform) ==
    CASE platform = "POLYMARKET" -> "PolyMarket"
      [] platform = "MANIFOLD" -> "Manifold"
      [] platform = "KALSHI" -> "Kalshi"

\* PolyMarketAdapter.toStandardMarket: new Decimal(prices[index]) throws when
\* outcomePrices is shorter than outcomes
PolyTransformThrows(item) == Len(item.outcomePrices) < Len(item.outcomes)

PolyToStandardMarketBinaryOnly(item) ==
    StandardMarket(item.id, "POLYMARKET", item.question,
                   SubSeq(item.outcomes, 1, 2), SubSeq(item.outcomePrices, 1, 2))
PolyToStandardMarket(item) ==
    StandardMarket(item.id, "POLYMARKET", item.question, item.outcomes,
                   SubSeq(item.outcomePrices, 1, Len(item.outcomes)))

\* ManifoldAdapter.isBinaryMarket
isBinaryMarket(item) ==
    item.outcomeType = "BINARY" /\ ~item.isResolved /\ item.probability.def

\* ManifoldAdapter.toStandardMarket: probability || 0.5, No = 1 - probability
ManifoldToStandardMarket(item) ==
    LET probability == IF item.probability.def /\ item.probability.v # 0
                       THEN item.probability.v ELSE Cents(50)
    IN StandardMarket(item.id, "MANIFOLD", item.question,
                      <<"Yes", "No">>, <<probability, ONE - probability>>)

\* KalshiAdapter.toStandardMarket: yes_ask ? yes_ask / 100 : 0
KalshiToStandardMarket(item) ==
    LET yesPrice == IF item.yes_ask.def /\ item.yes_ask.v # 0
                    THEN Cents(item.yes_ask.v) ELSE 0
        noPrice == IF item.no_ask.def /\ item.no_ask.v # 0
                   THEN Cents(item.no_ask.v) ELSE 0
    IN StandardMarket(item.ticker, "KALSHI", item.title,
                      <<"YES", "NO">>, <<yesPrice, noPrice>>)

\* the filter of KalshiAdapter.fetchMarkets
KalshiKeeps(item) == item.market_type = "binary" /\ item.yes_ask.def

Take(s, n) == SubSeq(s, 1, Min(n, Len(s)))

\* the body of the try block of fetchMarkets after a schema-valid response:
\* the markets, or the value thrown by a transform
TransformList(platform, items, limit) ==
    CASE platform = "POLYMARKET" ->
            IF \E i \in 1..Len(items) : PolyTransformThrows(items[i])
            THEN [ok |-> FALSE, thrown |-> PlainError]
            ELSE [ok |-> TRUE, markets |-> MapSeq(PolyToStandardMarket, items)]
      [] platform = "MANIFOLD" ->
            [ok |-> TRUE,
             markets |-> MapSeq(ManifoldToStandardMarket,
                                Take(SelectSeq(items, isBinaryMarket), limit))]
      [] platform = "KALSHI" ->
            [ok |-> TRUE,
             markets |-> MapSeq(KalshiToStandardMarket, SelectSeq(items, KalshiKeeps))]

\* the value thrown by a failed request or a schema violation
ThrownByRequest(raw) ==
    IF raw.kind \in {"http", "timeout", "network"}
    THEN AxiosError(raw.status, raw.code, raw.retryAfter)
    ELSE ValidationError("Invalid response format", BadPayload, ZodError)

\* one execution of operation() of fetchMarkets(limit): every thrown value is
\* classified by the outer catch
fetchMarketsAttempt(platform, raw, items, limit) ==
    IF raw.kind = "ok"
    THEN LET t == TransformList(platform, items, limit) IN
           IF t.ok THEN [kind |-> "markets", markets |-> t.markets]
           ELSE [kind |-> "threw",
                 error |-> classifyError(t.thrown, ErrorPlatform(platform))]
    ELSE [kind |-> "threw",
          error |-> classifyError(ThrownByRequest(raw), ErrorPlatform(platform))]

\* PolyMarketAdapter.fetchMarketById: the catch block returns null for any error
fetchMarketById(raw, item) ==
    IF raw.kind = "ok" /\ ~PolyTransformThrows(item)
    THEN [kind |-> "market", markets |-> <<PolyToStandardMarket(item)>>]
    ELSE [kind |-> "null"]

\* ManifoldAdapter.fetchMarketBySlug: null for a non-binary market and for any error
fetchMarketBySlug(raw, item) ==
    IF raw.kind = "ok" /\ isBinaryMarket(item)
    THEN [kind |-> "market", markets |-> <<ManifoldToStandardMarket(item)>>]
    ELSE [kind |-> "null"]

\* KalshiAdapter.fetchMarketByTicker: null only for a classified 404
fetchMarketByTickerNullOnAny(raw, item) ==
    IF raw.kind = "ok"
    THEN [kind |-> "market", markets |-> <<KalshiToStandardMarket(item)>>]
    ELSE [kind |-> "null"]
fetchMarketByTicker(raw, item) ==
    IF raw.kind = "ok"
    THEN [kind |-> "market", markets |-> <<KalshiToStandardMarket(item)>>]
    ELSE LET classifiedError == classifyError(ThrownByRequest(raw), "Kalshi") IN
         IF InstanceOfAPIError(classifiedError) /\ classifiedError.status = 404
         THEN [kind |-> "null"]
         ELSE [kind |-> "threw", error |-> classifiedError]

\* what a request can meet (a transform failure is decided by the payload)
RequestOutcomes == {r \in RawOutcomes : r.kind # "transformThrows"}

InitAdapter ==
    /\ CalcIdle /\ RetryIdle /\ ScanIdle /\ MoreIdle
    /\ \E p \in Platforms, op \in {"fetchMarkets", "fetchOne"}, l \in 1..MaxLimit :
          /\ adCall = [platform |-> p, op |-> op, limit |-> l]
          /\ adRaw \in RequestOutcomes
          /\ IF adRaw.kind # "ok" THEN adPayload = <<>>
             ELSE IF op = "fetchOne" THEN adPayload \in {<<it>> : it \in ItemsOf(p)}
             ELSE adPayload \in SeqsUpTo(ItemsOf(p), MaxItems)
          /\ (op = "fetchOne" => l = 1)
    /\ adResult = [kind |-> "none"]
    /\ adPc = "ready"

FetchMarketsAttempt ==
    /\ adPc = "ready"
    /\ adCall.op = "fetchMarkets"
    /\ adResult' = fetchMarketsAttempt(adCall.platform, adRaw, adPayload, adCall.limit)
    /\ adPc' = "done"
    /\ UNCHANGED <<adCall, adRaw, adPayload>>
    /\ UNCHANGED <<calcVars, retryVars, alertVars, scanVars, moreVars>>

FetchOne ==
    /\ adPc = "ready"
    /\ adCall.op = "fetchOne"
    /\ LET item == IF adPayload = <<>> THEN [none |-> TRUE] ELSE adPayload[1] IN
         adResult' = CASE adCall.platform = "POLYMARKET" -> fetchMarketById(adRaw, item)
                       [] adCall.platform = "MANIFOLD" -> fetchMarketBySlug(adRaw, item)
                       [] adCall.platform = "KALSHI" -> fetchMarketByTicker(adRaw, item)
    /\ adPc' = "done"
    /\ UNCHANGED <<adCall, adRaw, adPayload>>
    /\ UNCHANGED <<calcVars, retryVars, alertVars, scanVars, moreVars>>

NextAdapter == FetchMarketsAttempt \/ FetchOne

SpecAdapter == InitAdapter /\ [][NextAdapter]_vars

(***************************************************************************)
(* Matcher: src/src/matcher/index.ts                                       *)
(***************************************************************************)
MaxListLen == 2

\* MATCH_THRESHOLD = 0.60, in thousandths
MATCH_THRESHOLD == 600

\* A title is the sequence of its characters.  The letters String.toLowerCase
\* maps, upper case and lower case in the same order: A-Z, then letters
\* outside ASCII
UpperCaseLetters ==
    <<"A", "B", "C", "D", "E", "F", "G", "H", "I", "J", "K", "L", "M", "N", "O", "P",
      "Q", "R", "S", "T", "U", "V", "W", "X", "Y", "Z", "É", "Ú">>
LowerCaseLetters ==
    <<"a", "b", "c", "d", "e", "f", "g", "h", "i", "j", "k", "l", "m", "n", "o", "p",
      "q", "r", "s", "t", "u", "v", "w", "x", "y", "z", "é", "ú">>
AsciiLetters ==
    {UpperCaseLetters[i] : i \in 1..26} \cup {LowerCaseLetters[i] : i \in 1..26}
AsciiDigits == {"0", "1", "2", "3", "4", "5", "6", "7", "8", "9"}

\* the character classes \w and \s of a JavaScript regular expression without
\* the u flag: \w is [A-Za-z0-9_]
IsWordChar(c) == c \in AsciiLetters \cup AsciiDigits \cup {"_"}
IsSpaceChar(c) == c = " "

\* title.toLowerCase()
toLowerCase(cs) ==
    [i \in 1..Len(cs) |->
        IF \E j \in 1..Len(UpperCaseLetters) : UpperCaseLetters[j] = cs[i]
        THEN LowerCaseLetters[CHOOSE j \in 1..Len(UpperCaseLetters) :
                                  UpperCaseLetters[j] = cs[i]]
        ELSE cs[i]]

\* .replace(/[^\w\s]/g, ' ')
replaceNonWord(cs) ==
    [i \in 1..Len(cs) |-> IF IsWordChar(cs[i]) \/ IsSpaceChar(cs[i]) THEN cs[i] ELSE " "]

\* .split(/\s+/) from the i-th character on: cur is the piece being read and
\* inSpace says that the last character was a separator.  A separator at
\* either end of the string leaves an empty piece there.
RECURSIVE splitFrom(_, _, _, _)
splitFrom(cs, i, cur, inSpace) ==
    IF i > Len(cs) THEN <<cur>>
    ELSE IF IsSpaceChar(cs[i])
         THEN IF inSpace THEN splitFrom(cs, i + 1, cur, TRUE)
              ELSE <<cur>> \o splitFrom(cs, i + 1, "", TRUE)
         ELSE splitFrom(cs, i + 1, cur \o cs[i], FALSE)

split(cs) == splitFrom(cs, 1, "", FALSE)

stopWords ==
    {"will", "the", "be", "in", "on", "at", "to", "a", "an",
     "is", "are", "was", "were", "for", "of", "by", "or"}

\* extractKeywords: the pieces longer than two characters that are no stop
\* words
extractKeywords(title) ==
    SelectSeq(split(replaceNonWord(toLowerCase(title))),
              LAMBDA word : Len(word) > 2 /\ word \notin stopWords)

SeqToSet(q) == {q[i] : i \in 1..Len(q)}

AbsDiff(x, y) == IF x >= y THEN x - y ELSE y - x

\* endDate.getTime() counts in hours here (milliseconds in the program): a day
\* is 1000 * 60 * 60 * 24 ms
HoursPerDay == 24

\* a StandardMarket as the matcher reads it: title, endDate in hours
MatcherMarket(id, platform, title, endDate, n) ==
    [id |-> id, platform |-> platform, title |-> title, endDate |-> endDate,
     outcomes |-> [i \in 1..n |-> [name |-> DefaultNames(n)[i], price |-> Cents(50)]]]

\* the markets handed to the matcher: any platform, with and without end date
\* (30 days, and an hour more than 30 days, after the first)
MatcherPool ==
    << MatcherMarket("POLY_1", "POLYMARKET",
          <<"W", "i", "l", "l", " ", "T", "r", "u", "m", "p", " ", "w", "i", "n", "?">>,
          Some(0), 2),
      MatcherMarket("POLY_2", "POLYMARKET",
          <<"P", "e", "r", "ú", " ", "r", "e", "c", "e", "s", "s", "i", "o", "n", " ",
            "i", "n", " ", "2", "0", "2", "5", "?">>,
          Undefined, 2),
      MatcherMarket("KAL_1", "KALSHI",
          <<"T", "r", "u", "m", "p", " ", "w", "i", "n">>,
          Some(30 * HoursPerDay), 2),
      MatcherMarket("KAL_2", "KALSHI",
          <<"T", "r", "u", "m", "p", ":", " ", "G", "D", "P", " ", "p", "e", "r", " ",
            "c", "a", "p", "i", "t", "a">>,
          Some(30 * HoursPerDay + 1), 2),
      MatcherMarket("MANI_1", "MANIFOLD",
          <<"T", "r", "u", "m", "p", " ", "w", "i", "n">>,
          Some(10 * HoursPerDay), 3),
      MatcherMarket("MANI_2", "MANIFOLD",
          <<"W", "i", "l", "l", " ", "t", "h", "e", " ", "U", "S", " ", "i", "n", "?">>,
          Undefined, 2) >>

\* extractKeywords is a function of the title alone: its value for each title
\* of the pool
Keywords ==
    [title \in {MatcherPool[i].title : i \in 1..Len(MatcherPool)} |->
        extractKeywords(title)]

\* daysDiff, a fraction: its whole days and what is left of a day
daysDiffWholeDays(targetMarket, candidate) ==
    [whole |-> AbsDiff(targetMarket.endDate.v, candidate.endDate.v) \div HoursPerDay,
     rest |-> 0]
daysDiff(targetMarket, candidate) ==
    [whole |-> AbsDiff(targetMarket.endDate.v, candidate.endDate.v) \div HoursPerDay,
     rest |-> AbsDiff(targetMarket.endDate.v, candidate.endDate.v) % HoursPerDay]

\* FILTER 1 of preFilterCandidates: FALSE when the candidate is skipped
passesDateFilter(targetMarket, candidate) ==
    IF targetMarket.endDate.def /\ candidate.endDate.def
    THEN LET d == daysDiff(targetMarket, candidate)
         IN ~(d.whole > 30 \/ (d.whole = 30 /\ d.rest > 0))
    ELSE TRUE

\* FILTER 2 of preFilterCandidates: wordsA.some(word => wordsB.includes(word))
hasOverlapAlways(targetMarket, candidate) == TRUE
hasOverlap(targetMarket, candidate) ==
    LET wordsA == Keywords[targetMarket.title]
        wordsB == Keywords[candidate.title]
    IN \E i \in 1..Len(wordsA) : \E j \in 1..Len(wordsB) : wordsA[i] = wordsB[j]

\* the predicate of the filter in preFilterCandidates
passesPreFilter(targetMarket, candidate) ==
    /\ passesDateFilter(targetMarket, candidate)
    /\ hasOverlap(targetMarket, candidate)
    /\ Len(targetMarket.outcomes) = Len(candidate.outcomes)

preFilterCandidatesUnfiltered(targetMarket, candidateMarkets) == candidateMarkets
preFilterCandidates(targetMarket, candidateMarkets) ==
    SelectSeq(candidateMarkets, LAMBDA c : passesPreFilter(targetMarket, c))

\* Fuse.js (not part of the repository): search(title) over the candidates
\* returns the items whose score is within threshold = 1 - MATCH_THRESHOLD,
\* best first.  Which candidates those are and their scores (thousandths; 0 is
\* a perfect match) is the library's choice; only results[0] is read.
FuseScores == {0, 395, 1000 - MATCH_THRESHOLD}

FuseNoResult == [found |-> FALSE, item |-> [id |-> "none"], score |-> 0]

FuseBestResults(candidates) ==
    {FuseNoResult}
      \cup {[found |-> TRUE, item |-> candidates[j], score |-> sc] :
               j \in 1..Len(candidates), sc \in FuseScores}

\* Math.round((1 - score) * 100), score in thousandths
confidenceScoreTruncated(score) == ((1000 - score) * 100) \div 1000
confidenceScore(score) == ((1000 - score) * 100 + 500) \div 1000

NoMatch == [none |-> TRUE]

\* findBestMatch, given results[0] of fuse.search
findBestMatch(targetMarket, best) ==
    IF ~best.found THEN NoMatch
    ELSE [marketA |-> targetMarket, marketB |-> best.item,
          score |-> confidenceScore(best.score), matchedBy |-> "fuzzy"]

\* the order-preserving sub-lists of a list
RECURSIVE SubLists(_)
SubLists(q) ==
    IF q = <<>> THEN {<<>>}
    ELSE LET rest == SubLists(Tail(q)) IN rest \cup {<<Head(q)>> \o r : r \in rest}

InitMatch ==
    /\ CalcIdle /\ RetryIdle /\ AdapterIdle /\ ScanIdle /\ LaterIdle
    /\ mtA \in SeqsUpTo(SeqToSet(MatcherPool), MaxListLen)
    /\ mtB \in SubLists(MatcherPool)
    /\ mtI = 0
    /\ mtMatches = <<>>
    /\ mtFrom = <<>>
    /\ mtPc = "loop"

\* one turn of the loop over marketsA whose candidate list is empty: continue
MatchSkipNoCandidates ==
    /\ mtPc = "loop"
    /\ mtI < Len(mtA)
    /\ preFilterCandidates(mtA[mtI + 1], mtB) = <<>>
    /\ mtI' = mtI + 1
    /\ UNCHANGED <<mtA, mtB, mtMatches, mtFrom, mtPc>>
    /\ UNCHANGED <<calcVars, retryVars, adapterVars, alertVars, scanVars, laterVars>>

\* one turn of the loop with candidates: findBestMatch, pushed unless null
MatchBest ==
    /\ mtPc = "loop"
    /\ mtI < Len(mtA)
    /\ LET candidates == preFilterCandidates(mtA[mtI + 1], mtB) IN
         /\ candidates # <<>>
         /\ \E best \in FuseBestResults(candidates) :
              LET bestMatch == findBestMatch(mtA[mtI + 1], best) IN
              IF bestMatch = NoMatch
              THEN UNCHANGED <<mtMatches, mtFrom>>
              ELSE /\ mtMatches' = Append(mtMatches, bestMatch)
                   /\ mtFrom' = Append(mtFrom, mtI + 1)
    /\ mtI' = mtI + 1
    /\ UNCHANGED <<mtA, mtB, mtPc>>
    /\ UNCHANGED <<calcVars, retryVars, adapterVars, alertVars, scanVars, laterVars>>

\* the loop is over: return matches
MatchReturn ==
    /\ mtPc = "loop"
    /\ mtI = Len(mtA)
    /\ mtPc' = "done"
    /\ UNCHANGED <<mtA, mtB, mtI, mtMatches, mtFrom>>
    /\ UNCHANGED <<calcVars, retryVars, adapterVars, alertVars, scanVars, laterVars>>

NextMatch == MatchSkipNoCandidates \/ MatchBest \/ MatchReturn

SpecMatch == InitMatch /\ [][NextMatch]_vars

(***************************************************************************)
(* Cache: src/src/services/redis.ts                                        *)
(***************************************************************************)
\* CacheKeys
MarketsKey(platform) == <<"markets", platform>>
AlertSentKey(marketAId, marketBId) == <<"alert:sent", marketAId, marketBId>>
OpportunitiesKey == <<"opportunities:latest">>
ScanResultsKey(timestamp) == <<"scan:results", timestamp>>

\* Redis drops a key once its TTL has run out
Purge(c, t) == {e \in c : e.expiresAt > t}

\* Cache.set(key, value, ttlSeconds): redis.setex; a failing command is
\* caught and logged, the key keeps what it had
CacheSet(c, t, key, value, ttlSeconds) ==
    IF ~redisUp THEN c
    ELSE {e \in c : e.key # key}
           \cup {[key |-> key, value |-> value, ttl |-> ttlSeconds,
                  expiresAt |-> t + ttlSeconds]}

\* Cache.get(key): null when the key is absent or expired, and when the
\* command fails
CacheHas(c, t, key) == redisUp /\ \E e \in c : e.key = key /\ e.expiresAt > t
CacheGet(c, t, key) == (CHOOSE e \in c : e.key = key /\ e.expiresAt > t).value

\* JSON.stringify and JSON.parse of a plain JSON value
JSONstringify(value) == value.text
JSONparse(text) == CHOOSE v \in KvValues : v.text = text

\* Cache.get as written: redis.get, null when the reply is falsy (no key, or an
\* empty string), JSON.parse otherwise
CacheRead(c, t, key) ==
    IF ~CacheHas(c, t, key) THEN KvNull
    ELSE LET cached == JSONstringify(CacheGet(c, t, key)) IN
         IF cached = "" THEN KvNull ELSE JSONparse(cached)

\* Cache.exists(key): redis.exists(key) === 1; false when the command fails
CacheExists(c, t, key) == CacheHas(c, t, key)

\* Cache.delete(key): redis.del(key); a failing command is caught
CacheDeleteAll(c, key) == IF ~redisUp THEN c ELSE {}
CacheDelete(c, key) == IF ~redisUp THEN c ELSE {e \in c : e.key # key}

\* Cache.clear(): redis.flushdb(); a failing command is caught
CacheClear(c) == IF ~redisUp THEN c ELSE {}

(***************************************************************************)
(* Alert service: src/unnamed/part_007                                     *)
(***************************************************************************)
\* the whole part of a finite non-negative decimal
RECURSIVE DigitsValue(_)
DigitsValue(ds) ==
    IF ds = <<>> THEN 0 ELSE 10 * DigitsValue(SubSeq(ds, 1, Len(ds) - 1)) + ds[Len(ds)]

DecIntPart(d) ==
    IF d.digits = <<>> \/ d.exp < 0 THEN 0
    ELSE IF Len(d.digits) >= d.exp + 1
         THEN DigitsValue(SubSeq(d.digits, 1, d.exp + 1))
         ELSE DigitsValue(d.digits) * Pow10(d.exp + 1 - Len(d.digits))

\* meetsAlertThreshold: roi.mul(100) >= minProfitPercent (a whole number here)
\* and profitMargin >= minProfitAmount (units of 10^-4)
meetsAlertThresholdPercentOnly(cfg, opp) ==
    opp.roi.inf \/ DecIntPart(DecTimes100(opp.roi)) >= cfg.minProfitPercent
meetsAlertThreshold(cfg, opp) ==
    /\ (opp.roi.inf \/ DecIntPart(DecTimes100(opp.roi)) >= cfg.minProfitPercent)
    /\ opp.profitMargin >= cfg.minProfitAmount

PairOf(opp) == <<opp.marketA.id, opp.marketB.id>>

\* isInCooldown: Cache.get(alertSent(idA, idB)) !== null
isInCooldownNever(c, t, opp) == FALSE
isInCooldown(c, t, opp) == CacheHas(c, t, AlertSentKey(opp.marketA.id, opp.marketB.id))

\* markAlerted: Cache.set(key, {timestamp}, cooldownMinutes * 60)
markAlertedMinutes(c, t, cfg, opp) ==
    CacheSet(c, t, AlertSentKey(opp.marketA.id, opp.marketB.id),
             [kind |-> "alertSent", timestamp |-> t], cfg.cooldownMinutes)
markAlerted(c, t, cfg, opp) ==
    CacheSet(c, t, AlertSentKey(opp.marketA.id, opp.marketB.id),
             [kind |-> "alertSent", timestamp |-> t], cfg.cooldownMinutes * 60)

WebhookOutcomes == {"ok", "non2xx", "networkError"}

\* sendToDiscord: throws before any request when no webhook URL is configured,
\* and after the request when it failed or the response is not ok
sendToDiscord(cfg, outcome) ==
    IF ~cfg.webhook THEN [posted |-> FALSE, threw |-> TRUE]
    ELSE [posted |-> TRUE, threw |-> outcome # "ok"]

\* sendArbitrageAlert: [posted, postOk, cache, threw]; the catch block swallows
\* whatever sendToDiscord throws
sendArbitrageAlertNoCatch(cfg, c, t, opp, outcome) ==
    LET d == sendToDiscord(cfg, outcome) IN
    IF ~cfg.enabled \/ isInCooldown(c, t, opp)
    THEN [posted |-> FALSE, postOk |-> FALSE, cache |-> c, threw |-> FALSE]
    ELSE IF d.threw
    THEN [posted |-> d.posted, postOk |-> FALSE, cache |-> c, threw |-> TRUE]
    ELSE [posted |-> TRUE, postOk |-> TRUE, cache |-> markAlerted(c, t, cfg, opp),
          threw |-> FALSE]
sendArbitrageAlert(cfg, c, t, opp, outcome) ==
    IF ~cfg.enabled
    THEN [posted |-> FALSE, postOk |-> FALSE, cache |-> c, threw |-> FALSE]
    ELSE IF isInCooldown(c, t, opp)
    THEN [posted |-> FALSE, postOk |-> FALSE, cache |-> c, threw |-> FALSE]
    ELSE LET d == sendToDiscord(cfg, outcome) IN
         IF d.threw
         THEN [posted |-> d.posted, postOk |-> FALSE, cache |-> c, threw |-> FALSE]
         ELSE [posted |-> TRUE, postOk |-> TRUE,
               cache |-> markAlerted(c, t, cfg, opp), threw |-> FALSE]

\* sendAlerts: 2000 ms after each alert when the batch has more than one
PacingSeconds(batch) == IF Len(batch) > 1 THEN 2 ELSE 0

(***************************************************************************)
(* Worker: src/src/services/queue.ts processScanJob                        *)
(***************************************************************************)
MaxJobs == 2

\* CONFIG.alerts as read from the environment: the defaults, and deployments
\* that lower the profit amount bound (to 0.10, or to 0), disable alerts or
\* leave the webhook unset
AlertConfigs ==
    {[enabled |-> TRUE, webhook |-> TRUE, minProfitPercent |-> 5,
      minProfitAmount |-> 10 * ONE, cooldownMinutes |-> 10],
     [enabled |-> TRUE, webhook |-> TRUE, minProfitPercent |-> 5,
      minProfitAmount |-> ONE \div 10, cooldownMinutes |-> 10]}
    \cup {[enabled |-> c[1], webhook |-> c[2], minProfitPercent |-> 5,
           minProfitAmount |-> 0, cooldownMinutes |-> c[3]] :
             c \in {<<TRUE, TRUE, 1>>, <<TRUE, TRUE, 10>>,
                    <<FALSE, TRUE, 10>>, <<TRUE, FALSE, 10>>}}

\* the markets the two platforms serve
MarketsPM == <<Market("POLY_123", "POLYMARKET", <<Cents(45), Cents(55)>>),
               Market("POLY_30", "POLYMARKET", <<Cents(30), Cents(30)>>)>>
MarketsMAN == <<Market("MANI_456", "MANIFOLD", <<Cents(60), Cents(38)>>)>>

FetchChoices(all) == {SubSeq(all, k, Len(all)) : k \in 1..(Len(all) + 1)}

\* the jobs startScheduler enrols (limits scaled down)
ScanJobs ==
    {[platformA |-> "POLYMARKET", platformB |-> "MANIFOLD", limit |-> 2],
     [platformA |-> "KALSHI", platformB |-> "POLYMARKET", limit |-> 1],
     [platformA |-> "KALSHI", platformB |-> "MANIFOLD", limit |-> 1]}

\* what adapter.fetchMarkets(limit) of a platform may return
AdapterLists(platform, limit) ==
    LET all == CASE platform = "POLYMARKET" -> MarketsPM
                 [] platform = "MANIFOLD" -> MarketsMAN
                 [] OTHER -> <<>>
    IN {q \in FetchChoices(all) : Len(q) <= limit}

\* findMatches pairs each market of A, in order, with at most one market of B;
\* which one is left to the ranker
RECURSIVE MatchChoices(_, _)
MatchChoices(A, B) ==
    IF A = <<>> THEN {<<>>}
    ELSE LET rest == MatchChoices(Tail(A), B) IN
         rest \cup {<<Match(Head(A), B[j])>> \o r : j \in 1..Len(B), r \in rest}

AllPairs == {<<MarketsPM[i].id, MarketsMAN[j].id>> : i \in 1..Len(MarketsPM), j \in 1..Len(MarketsMAN)}

InitScan ==
    /\ CalcIdle /\ RetryIdle /\ AdapterIdle /\ MoreIdle
    /\ alertCfg \in AlertConfigs
    /\ now = 0
    /\ cache = {}
    /\ postCount = 0
    /\ lastSend = NoSend
    /\ okPostAt = [p \in AllPairs |-> 0 - 1]
    /\ redisUp = TRUE
    /\ scData = [platformA |-> "none", platformB |-> "none", limit |-> 0]
    /\ scFetch = <<>>
    /\ scJob = 0
    /\ scPc = "waiting"
    /\ scMarkets = <<>>
    /\ scMatches = <<>>
    /\ scOpps = <<>>
    /\ scAlertable = <<>>
    /\ scIdx = 0
    /\ scResult = [kind |-> "none"]
    /\ scProgress = 0

WorkerFree == scPc = "waiting"

\* Gaps, in seconds, between the end of one job and the start of the next: jobs
\* queued back to back, the 60 s repeat, and a long pause
JobGaps == {0, 60, 600}

\* the job has ended; the next one becomes due after a gap
AdvanceTime ==
    /\ scPc \in {"done", "failed"}
    /\ scJob < MaxJobs
    /\ \E d \in JobGaps :
          /\ now' = now + d
          /\ cache' = Purge(cache, now + d)
    /\ scPc' = "waiting"
    /\ UNCHANGED <<alertCfg, postCount, lastSend, okPostAt, redisUp>>
    /\ UNCHANGED <<scJob, scMarkets, scMatches, scOpps, scAlertable, scIdx, scResult,
                   scData, scFetch, scProgress>>
    /\ UNCHANGED <<calcVars, retryVars, adapterVars, moreVars>>

\* the platforms fetchMarketsWithCache has an adapter branch for
HasAdapterBranch(platform) == platform \in {"POLYMARKET", "MANIFOLD"}

\* fetchMarketsWithCache: the cached list while Cache.get returns one, else the
\* list the platform's adapter returns (fresh) or, for a platform without a
\* branch, the empty list; the list is then cached for 120 s
fetchMarketsWithCacheNoFallback(c, t, platform, limit, fresh) ==
    [markets |-> <<>>, cache |-> c, hit |-> FALSE, adapter |-> "none",
     limit |-> 0, returned |-> <<>>]
fetchMarketsWithCache(c, t, platform, limit, fresh) ==
    IF CacheHas(c, t, MarketsKey(platform))
    THEN [markets |-> CacheGet(c, t, MarketsKey(platform)).markets, cache |-> c,
          hit |-> TRUE, adapter |-> "none", limit |-> 0, returned |-> <<>>]
    ELSE LET markets == IF HasAdapterBranch(platform) THEN fresh ELSE <<>> IN
         [markets |-> markets,
          cache |-> CacheSet(c, t, MarketsKey(platform),
                             [kind |-> "markets", markets |-> markets], 120),
          hit |-> FALSE,
          adapter |-> IF HasAdapterBranch(platform) THEN platform ELSE "none",
          limit |-> IF HasAdapterBranch(platform) THEN limit ELSE 0,
          returned |-> markets]

\* what is kept of one fetchMarketsWithCache call: the platform, whether its
\* key was live in Redis and with which list, and what the call did
FetchRecord(c, t, platform, r) ==
    LET live == {e \in c : e.key = MarketsKey(platform) /\ e.expiresAt > t} IN
    [platform |-> platform, up |-> redisUp, present |-> live # {},
     cached |-> IF live # {} THEN (CHOOSE e \in live : TRUE).value.markets ELSE <<>>,
     hit |-> r.hit, adapter |-> r.adapter, limit |-> r.limit, returned |-> r.returned,
     used |-> r.markets]

\* the worker takes the next job; both fetches of Promise.all succeed
ScanFetch ==
    /\ WorkerFree
    /\ scJob < MaxJobs
    /\ scJob' = scJob + 1
    /\ \E data \in ScanJobs :
       \E a \in AdapterLists(data.platformA, data.limit),
          b \in AdapterLists(data.platformB, data.limit) :
          LET ra == fetchMarketsWithCache(cache, now, data.platformA, data.limit, a)
              rb == fetchMarketsWithCache(ra.cache, now, data.platformB, data.limit, b)
          IN /\ scData' = data
             /\ scMarkets' = [A |-> ra.markets, B |-> rb.markets]
             /\ scFetch' = <<FetchRecord(cache, now, data.platformA, ra),
                             FetchRecord(ra.cache, now, data.platformB, rb)>>
             /\ cache' = rb.cache
    /\ scPc' = "fetched"
    /\ scMatches' = <<>> /\ scOpps' = <<>> /\ scAlertable' = <<>> /\ scIdx' = 0
    /\ scResult' = [kind |-> "none"]
    /\ scProgress' = 40
    /\ UNCHANGED <<alertCfg, now, postCount, lastSend, okPostAt, redisUp>>
    /\ UNCHANGED <<calcVars, retryVars, adapterVars, moreVars>>

\* the cache after Promise.all rejected: a fetchMarketsWithCache whose adapter
\* threw has written nothing, the other one has written its list if it missed
\* the cache
cacheAfterFailedFetchEmptyList(c, t, data, a, b, throwsA, throwsB) ==
    LET ca == fetchMarketsWithCache(c, t, data.platformA, data.limit,
                                    IF throwsA THEN <<>> ELSE a).cache
    IN fetchMarketsWithCache(ca, t, data.platformB, data.limit,
                             IF throwsB THEN <<>> ELSE b).cache
cacheAfterFailedFetch(c, t, data, a, b, throwsA, throwsB) ==
    LET ca == IF throwsA THEN c
              ELSE fetchMarketsWithCache(c, t, data.platformA, data.limit, a).cache
    IN IF throwsB THEN ca
       ELSE fetchMarketsWithCache(ca, t, data.platformB, data.limit, b).cache

\* the worker takes the next job; an adapter fetch throws (only a cache miss
\* reaches an adapter) and the job fails, while the other fetch, if it missed
\* the cache too and succeeded, still caches its list
ScanFetchFails ==
    /\ WorkerFree
    /\ scJob < MaxJobs
    /\ scJob' = scJob + 1
    /\ \E data \in ScanJobs, throwsA \in BOOLEAN, throwsB \in BOOLEAN :
       \E a \in AdapterLists(data.platformA, data.limit),
          b \in AdapterLists(data.platformB, data.limit) :
          /\ throwsA \/ throwsB
          /\ throwsA => /\ HasAdapterBranch(data.platformA)
                        /\ ~CacheHas(cache, now, MarketsKey(data.platformA))
          /\ throwsB => /\ HasAdapterBranch(data.platformB)
                        /\ ~CacheHas(cache, now, MarketsKey(data.platformB))
          /\ cache' = cacheAfterFailedFetch(cache, now, data, a, b, throwsA, throwsB)
          /\ scData' = data
    /\ scPc' = "failed"
    /\ scMarkets' = <<>>
    /\ scFetch' = <<>>
    /\ scMatches' = <<>> /\ scOpps' = <<>> /\ scAlertable' = <<>> /\ scIdx' = 0
    /\ scResult' = [kind |-> "failed", at |-> "fetch"]
    /\ scProgress' = 10
    /\ UNCHANGED <<alertCfg, now, postCount, lastSend, okPostAt, redisUp>>
    /\ UNCHANGED <<calcVars, retryVars, adapterVars, moreVars>>

ScanMatch ==
    /\ scPc = "fetched"
    /\ scMatches' \in MatchChoices(scMarkets.A, scMarkets.B)
    /\ scPc' = "matched"
    /\ scProgress' = 70
    /\ UNCHANGED <<scJob, scMarkets, scOpps, scAlertable, scIdx, scResult, scData, scFetch>>
    /\ UNCHANGED alertVars
    /\ UNCHANGED <<calcVars, retryVars, adapterVars, moreVars>>

ScanCalculate ==
    /\ scPc = "matched"
    /\ LET opportunities == findArbitrageOpportunities(scMatches)
           alertable == SelectSeq(opportunities,
                                  LAMBDA o : meetsAlertThreshold(alertCfg, o))
       IN /\ scOpps' = opportunities
          /\ scAlertable' = alertable
          /\ scPc' = IF Len(alertable) > 0 THEN "alerts" ELSE "cache"
    /\ scProgress' = 90
    /\ UNCHANGED <<scJob, scMarkets, scMatches, scIdx, scResult, scData, scFetch>>
    /\ UNCHANGED alertVars
    /\ UNCHANGED <<calcVars, retryVars, adapterVars, moreVars>>

\* one turn of the loop of sendAlerts: sendArbitrageAlert, then the pacing sleep
ScanSendAlert ==
    /\ scPc = "alerts"
    /\ scIdx < Len(scAlertable)
    /\ \E outcome \in WebhookOutcomes :
         LET opp == scAlertable[scIdx + 1]
             r == sendArbitrageAlert(alertCfg, cache, now, opp, outcome)
             t == now + PacingSeconds(scAlertable)
         IN IF r.threw
            THEN /\ scPc' = "failed"
                 /\ scResult' = [kind |-> "failed", at |-> "alerts"]
                 /\ postCount' = postCount + (IF r.posted THEN 1 ELSE 0)
                 /\ UNCHANGED <<scIdx, now, cache, lastSend, okPostAt>>
            ELSE /\ scIdx' = scIdx + 1
                 /\ scPc' = IF scIdx + 1 = Len(scAlertable) THEN "cache" ELSE "alerts"
                 /\ now' = t
                 /\ cache' = Purge(r.cache, t)
                 /\ postCount' = postCount + (IF r.posted THEN 1 ELSE 0)
                 /\ lastSend' = [pair |-> PairOf(opp), time |-> now,
                                 posted |-> r.posted,
                                 outcome |-> IF r.posted THEN outcome ELSE "none",
                                 prevOk |-> okPostAt[PairOf(opp)], job |-> scJob]
                 /\ okPostAt' = IF r.postOk
                                THEN [okPostAt EXCEPT ![PairOf(opp)] = now]
                                ELSE okPostAt
                 /\ UNCHANGED scResult
    /\ UNCHANGED <<alertCfg, redisUp, scJob, scMarkets, scMatches, scOpps, scAlertable,
                   scData, scFetch, scProgress>>
    /\ UNCHANGED <<calcVars, retryVars, adapterVars, moreVars>>

\* { [platformA]: marketsA.length, [platformB]: marketsB.length }
MarketsScanned(data, markets) ==
    [p \in {data.platformA, data.platformB} |->
        IF p = data.platformB THEN Len(markets.B) ELSE Len(markets.A)]

\* the ScanResult is built, cached under both result keys and returned
ScanCacheResults ==
    /\ scPc = "cache"
    /\ LET result == [timestamp |-> now,
                      opportunities |-> scOpps,
                      marketsScanned |-> MarketsScanned(scData, scMarkets),
                      matchesFound |-> Len(scMatches)]
           c1 == CacheSet(cache, now, OpportunitiesKey,
                          [kind |-> "scanResult", result |-> result], 120)
           c2 == CacheSet(c1, now, ScanResultsKey(result.timestamp),
                          [kind |-> "scanResult", result |-> result], 3600)
       IN /\ cache' = c2
          /\ scResult' = [kind |-> "completed", result |-> result]
    /\ scPc' = "done"
    /\ UNCHANGED <<alertCfg, now, postCount, lastSend, okPostAt, redisUp>>
    /\ scProgress' = 100
    /\ UNCHANGED <<scJob, scMarkets, scMatches, scOpps, scAlertable, scIdx, scData, scFetch>>
    /\ UNCHANGED <<calcVars, retryVars, adapterVars, moreVars>>

NextScan ==
    \/ AdvanceTime
    \/ ScanFetch
    \/ ScanFetchFails
    \/ ScanMatch
    \/ ScanCalculate
    \/ ScanSendAlert
    \/ ScanCacheResults

SpecScan == InitScan /\ [][NextScan]_vars

\* Redis starts failing its commands, or recovers, between two steps of the worker
RedisFails ==
    /\ redisUp
    /\ scPc \notin {"done", "failed"}
    /\ redisUp' = FALSE
    /\ UNCHANGED <<alertCfg, now, cache, postCount, lastSend, okPostAt>>
    /\ UNCHANGED scanVars
    /\ UNCHANGED <<calcVars, retryVars, adapterVars, moreVars>>

RedisRecovers ==
    /\ ~redisUp
    /\ scPc \notin {"done", "failed"}
    /\ redisUp' = TRUE
    /\ UNCHANGED <<alertCfg, now, cache, postCount, lastSend, okPostAt>>
    /\ UNCHANGED scanVars
    /\ UNCHANGED <<calcVars, retryVars, adapterVars, moreVars>>

\* one job, with Redis failing and recovering between its steps
NextScanFaulty ==
    \/ ScanFetch
    \/ ScanFetchFails
    \/ ScanMatch
    \/ ScanCalculate
    \/ ScanSendAlert
    \/ ScanCacheResults
    \/ RedisFails
    \/ RedisRecovers

\* The faults are followed in the second job of a deployment: the first job
\* ran at time 0 with Redis up, fetched both full lists, found no match and
\* cached its result; the second job is due after one of the gaps.
FirstJobData == [platformA |-> "POLYMARKET", platformB |-> "MANIFOLD", limit |-> 2]
FirstJobMarkets == [A |-> MarketsPM, B |-> MarketsMAN]
FirstJobResult ==
    [timestamp |-> 0, opportunities |-> <<>>,
     marketsScanned |-> MarketsScanned(FirstJobData, FirstJobMarkets),
     matchesFound |-> 0]
FirstJobFetched(platform, markets) ==
    [platform |-> platform, up |-> TRUE, present |-> FALSE, cached |-> <<>>,
     hit |-> FALSE, adapter |-> platform, limit |-> 2, returned |-> markets,
     used |-> markets]
FirstJobCache ==
    {[key |-> MarketsKey("POLYMARKET"),
      value |-> [kind |-> "markets", markets |-> MarketsPM],
      ttl |-> 120, expiresAt |-> 120],
     [key |-> MarketsKey("MANIFOLD"),
      value |-> [kind |-> "markets", markets |-> MarketsMAN],
      ttl |-> 120, expiresAt |-> 120],
     [key |-> OpportunitiesKey,
      value |-> [kind |-> "scanResult", result |-> FirstJobResult],
      ttl |-> 120, expiresAt |-> 120],
     [key |-> ScanResultsKey(0),
      value |-> [kind |-> "scanResult", result |-> FirstJobResult],
      ttl |-> 3600, expiresAt |-> 3600]}

AfterFirstJob ==
    /\ now \in JobGaps
    /\ cache = Purge(FirstJobCache, now)
    /\ postCount = 0
    /\ lastSend = NoSend
    /\ okPostAt = [p \in AllPairs |-> 0 - 1]
    /\ redisUp = TRUE
    /\ scJob = 1
    /\ scPc = "waiting"
    /\ scData = FirstJobData
    /\ scFetch = <<FirstJobFetched("POLYMARKET", MarketsPM),
                   FirstJobFetched("MANIFOLD", MarketsMAN)>>
    /\ scMarkets = FirstJobMarkets
    /\ scMatches = <<>>
    /\ scOpps = <<>>
    /\ scAlertable = <<>>
    /\ scIdx = 0
    /\ scResult = [kind |-> "completed", result |-> FirstJobResult]
    /\ scProgress = 100

InitScanFaulty ==
    /\ CalcIdle /\ RetryIdle /\ AdapterIdle /\ MoreIdle
    /\ alertCfg \in {c \in AlertConfigs : c.enabled /\ c.webhook /\ c.minProfitAmount = 0}
    /\ AfterFirstJob

SpecScanFaulty == InitScanFaulty /\ [][NextScanFaulty]_vars

(***************************************************************************)
(* A client of the Cache class (src/src/services/redis.ts lines 54-130),   *)
(* as in src/src/tests/test-queue.ts Test 1: any sequence of set, get,     *)
(* exists, delete and clear on a few keys, while the clock runs            *)
(***************************************************************************)
\* the clock of this specification stops here (seconds)
MaxClock == 4

\* ttlSeconds of the calls: Redis accepts positive whole seconds
KvTtls == {1, 3}

InitCache ==
    /\ CalcIdle /\ RetryIdle /\ AdapterIdle /\ ScanIdle /\ MoreIdle

idleOfCache == <<calcVars, retryVars, adapterVars, scanVars, matchVars,
                 alertCfg, postCount, lastSend, okPostAt, redisUp, rtpVars,
                 queueVars, extraVars>>

\* await Cache.set(key, value, ttlSeconds)
KvSet ==
    \E key \in KvKeys, value \in KvValues, ttlSeconds \in KvTtls :
      /\ cache' = CacheSet(cache, now, key, value, ttlSeconds)
      /\ kvLast' = KvCall("set", key, value, FALSE, KvNull, FALSE)
      /\ kvExpect' = [kvExpect EXCEPT ![key] =
                        [set |-> TRUE, value |-> value, until |-> now + ttlSeconds]]
      /\ UNCHANGED <<now, idleOfCache>>

\* await Cache.get(key)
KvGet ==
    \E key \in KvKeys :
      /\ kvLast' = KvCall("get", key, CacheRead(cache, now, key), FALSE,
                          KvExpectedGet(key), FALSE)
      /\ kvLast' # kvLast
      /\ UNCHANGED <<cache, kvExpect, now, idleOfCache>>

\* await Cache.exists(key)
KvExists ==
    \E key \in KvKeys :
      /\ kvLast' = KvCall("exists", key, KvNull, CacheExists(cache, now, key),
                          KvNull, KvLive(key))
      /\ kvLast' # kvLast
      /\ UNCHANGED <<cache, kvExpect, now, idleOfCache>>

\* await Cache.delete(key)
KvDelete ==
    \E key \in KvKeys :
      /\ cache' = CacheDelete(cache, key)
      /\ kvLast' = KvCall("delete", key, KvNull, FALSE, KvNull, FALSE)
      /\ kvExpect' = [kvExpect EXCEPT ![key] = KvUnset]
      /\ UNCHANGED <<now, idleOfCache>>

\* await Cache.clear()
KvClear ==
    /\ cache' = CacheClear(cache)
    /\ kvLast' = KvCall("clear", <<"none">>, KvNull, FALSE, KvNull, FALSE)
    /\ kvExpect' = [k \in KvKeys |-> KvUnset]
    /\ UNCHANGED <<now, idleOfCache>>

\* a second passes; Redis drops the keys whose TTL has run out
KvTick ==
    /\ now < MaxClock
    /\ now' = now + 1
    /\ cache' = Purge(cache, now')
    /\ UNCHANGED <<kvLast, kvExpect, idleOfCache>>

NextCache == KvSet \/ KvGet \/ KvExists \/ KvDelete \/ KvClear \/ KvTick

SpecCache == InitCache /\ [][NextCache]_vars

(***************************************************************************)
(* A market list through the cache: Cache.set (JSON.stringify), Cache.get  *)
(* (JSON.parse) and deserializeMarkets (src/src/services/queue.ts 188-198) *)
(***************************************************************************)
\* JavaScript values of the fields: undefined, a string (its characters), a
\* Decimal (units of 10^-4), a Date (day since 1970-01-01 and millisecond of
\* the day, UTC)
JsUndefined == [type |-> "undefined"]
String(chars) == [type |-> "string", chars |-> chars]
DecimalOf(units) == [type |-> "Decimal", units |-> units]
DateOf(day, ms) == [type |-> "Date", day |-> day, ms |-> ms]

\* JavaScript truthiness of such a value: undefined and '' are falsy
Truthy(v) == v.type # "undefined" /\ ~(v.type = "string" /\ v.chars = <<>>)

DigitChars == <<"0", "1", "2", "3", "4", "5", "6", "7", "8", "9">>
DigitOfChar(c) == (CHOOSE i \in 1..10 : DigitChars[i] = c) - 1
CharsOfDigits(ds) == [i \in 1..Len(ds) |-> DigitChars[ds[i] + 1]]
DigitsOfChars(cs) == [i \in 1..Len(cs) |-> DigitOfChar(cs[i])]

\* n written with at least w digits
RECURSIVE PadDigits(_, _)
PadDigits(ds, w) == IF Len(ds) >= w THEN ds ELSE PadDigits(<<0>> \o ds, w)

\* Decimal.prototype.toJSON = toString: the integer part, and after a point
\* the fraction without trailing zeros
DecimalToString(units) ==
    LET ip == CharsOfDigits(DigitsOf(units \div ONE))
        fr == StripTrailingZeros(PadDigits(DigitsOf(units % ONE), 4))
    IN IF fr = <<>> THEN ip ELSE ip \o <<".">> \o CharsOfDigits(fr)

\* new Decimal(string)
DecimalFromString(chars) ==
    LET dot == IF \E i \in 1..Len(chars) : chars[i] = "."
               THEN CHOOSE i \in 1..Len(chars) : chars[i] = "."
               ELSE Len(chars) + 1
        ip  == DigitsValue(DigitsOfChars(SubSeq(chars, 1, dot - 1)))
        fr  == DigitsOfChars(SubSeq(chars, dot + 1, Len(chars)))
    IN ip * ONE + DigitsValue(fr) * Pow10(4 - Len(fr))

\* the civil date of a day number and back (proleptic Gregorian calendar)
CivilFromDays(day) ==
    LET z   == day + 719468
        era == z \div 146097
        doe == z - era * 146097
        yoe == (doe - doe \div 1460 + doe \div 36524 - doe \div 146096) \div 365
        doy == doe - (365 * yoe + yoe \div 4 - yoe \div 100)
        mp  == (5 * doy + 2) \div 153
        d   == doy - (153 * mp + 2) \div 5 + 1
        m   == IF mp < 10 THEN mp + 3 ELSE mp - 9
        y   == yoe + era * 400 + (IF m <= 2 THEN 1 ELSE 0)
    IN [year |-> y, month |-> m, date |-> d]

DaysFromCivil(year, month, date) ==
    LET y   == IF month <= 2 THEN year - 1 ELSE year
        era == y \div 400
        yoe == y - era * 400
        mp  == IF month > 2 THEN month - 3 ELSE month + 9
        doy == (153 * mp + 2) \div 5 + date - 1
        doe == yoe * 365 + yoe \div 4 - yoe \div 100 + doy
    IN era * 146097 + doe - 719468

\* Date.prototype.toJSON = toISOString: YYYY-MM-DDTHH:mm:ss.sssZ
DateToISOString(day, ms) ==
    LET c == CivilFromDays(day)
        P(n, w) == CharsOfDigits(PadDigits(DigitsOf(n), w))
    IN P(c.year, 4) \o <<"-">> \o P(c.month, 2) \o <<"-">> \o P(c.date, 2)
         \o <<"T">> \o P(ms \div 3600000, 2) \o <<":">> \o P((ms \div 60000) % 60, 2)
         \o <<":">> \o P((ms \div 1000) % 60, 2) \o <<".">> \o P(ms % 1000, 3)
         \o <<"Z">>

\* new Date(isoString)
DateFromISOString(chars) ==
    LET N(a, b) == DigitsValue(DigitsOfChars(SubSeq(chars, a, b)))
    IN DateOf(DaysFromCivil(N(1, 4), N(6, 7), N(9, 10)),
              N(12, 13) * 3600000 + N(15, 16) * 60000 + N(18, 19) * 1000 + N(21, 23))

\* what JSON.parse(JSON.stringify(value)) is for a field: a Decimal and a Date
\* become the string of their toJSON, undefined stays absent
ThroughJSON(v) ==
    IF v.type = "Decimal" THEN String(DecimalToString(v.units))
    ELSE IF v.type = "Date" THEN String(DateToISOString(v.day, v.ms))
    ELSE v

\* a StandardMarket with all its fields (types.ts)
FullMarket(id, platform, title, url, prices, endDate, liquidity) ==
    [id |-> String(id), platform |-> String(platform), title |-> String(title),
     url |-> String(url),
     outcomes |-> [i \in 1..Len(prices) |->
                     [name |-> String(DefaultNames(Len(prices))[i]),
                      price |-> DecimalOf(prices[i])]],
     endDate |-> endDate, liquidity |-> liquidity]

\* JSON.parse(JSON.stringify(markets))
MarketThroughJSON(m) ==
    [id |-> ThroughJSON(m.id), platform |-> ThroughJSON(m.platform),
     title |-> ThroughJSON(m.title), url |-> ThroughJSON(m.url),
     outcomes |-> [i \in 1..Len(m.outcomes) |->
                     [name |-> ThroughJSON(m.outcomes[i].name),
                      price |-> ThroughJSON(m.outcomes[i].price)]],
     endDate |-> ThroughJSON(m.endDate), liquidity |-> ThroughJSON(m.liquidity)]

MarketsThroughJSON(markets) == MapSeq(MarketThroughJSON, markets)

\* deserializeMarkets: endDate and liquidity rebuilt when truthy, undefined
\* otherwise; every outcome price rebuilt.  The variant ByValue tests the number the
\* string stands for, as a liquidity kept as a number would be tested.
RehydrateLiquidityByValue(liquidity) ==
    IF Truthy(liquidity) /\ DecimalFromString(liquidity.chars) # 0
    THEN DecimalOf(DecimalFromString(liquidity.chars)) ELSE JsUndefined
RehydrateLiquidity(liquidity) ==
    IF Truthy(liquidity) THEN DecimalOf(DecimalFromString(liquidity.chars))
    ELSE JsUndefined

deserializeMarket(market) ==
    [market EXCEPT
       !.endDate = IF Truthy(market.endDate)
                   THEN DateFromISOString(market.endDate.chars) ELSE JsUndefined,
       !.liquidity = RehydrateLiquidity(market.liquidity),
       !.outcomes = [i \in 1..Len(market.outcomes) |->
                       [market.outcomes[i] EXCEPT
                          !.price = DecimalOf(DecimalFromString(
                                                market.outcomes[i].price.chars))]]]

deserializeMarkets(markets) == MapSeq(deserializeMarket, markets)

\* longest list cached
MaxCached == 2

\* prices 0, 0.45, 0.0005 and 1; liquidity absent, 0, 1234.56; endDate absent,
\* 1970-01-01T00:00:00.000Z, 2024-02-29T12:00:00.500Z, 2024-12-31T23:59:59.999Z
RoundTripMarkets ==
    {FullMarket("POLY_123", "POLYMARKET", "Will it rain?",
                "https://polymarket.com/event/POLY_123", <<p, ONE - p>>, d, l) :
       p \in {0, Cents(45), 5, ONE},
       d \in {JsUndefined, DateOf(0, 0), DateOf(19782, 43200500),
              DateOf(20088, 86399999)},
       l \in {JsUndefined, DecimalOf(0), DecimalOf(12345600)}}

InitRoundTrip ==
    /\ CalcIdle /\ RetryIdle /\ AdapterIdle /\ ScanIdle /\ MatchIdle /\ KvIdle
    /\ QueueIdle /\ ExtraIdle
    /\ rtpIn \in SeqsUpTo(RoundTripMarkets, MaxCached)
    /\ rtpOut = <<>>
    /\ rtpPc = "ready"

idleOfRoundTrip == <<calcVars, retryVars, adapterVars, scanVars, matchVars, kvVars,
                     alertCfg, now, postCount, lastSend, okPostAt, redisUp,
                     queueVars, extraVars>>

\* await Cache.set(CacheKeys.markets(platform), markets, 120)
RoundTripSet ==
    /\ rtpPc = "ready"
    /\ cache' = CacheSet(cache, now, MarketsKey("POLYMARKET"),
                         MarketsThroughJSON(rtpIn), 120)
    /\ rtpPc' = "cached"
    /\ UNCHANGED <<rtpIn, rtpOut, idleOfRoundTrip>>

\* const cached = await Cache.get(cacheKey); if (cached) return
\* deserializeMarkets(cached)
RoundTripGet ==
    /\ rtpPc = "cached"
    /\ CacheHas(cache, now, MarketsKey("POLYMARKET"))
    /\ rtpOut' = deserializeMarkets(CacheGet(cache, now, MarketsKey("POLYMARKET")))
    /\ rtpPc' = "read"
    /\ UNCHANGED <<rtpIn, cache, idleOfRoundTrip>>

NextRoundTrip == RoundTripSet \/ RoundTripGet

SpecRoundTrip == InitRoundTrip /\ [][NextRoundTrip]_vars

(***************************************************************************)
(* Scan queue and worker: src/src/services/queue.ts lines 48-64, 203-268,  *)
(* on BullMQ (Queue.add, Queue.removeRepeatable, Worker) as documented     *)
(***************************************************************************)
\* scanQueue defaultJobOptions
attempts == 3
jobBackoffDelay == 2000

\* createScanWorker: concurrency; the variant is a worker of two
concurrencyTwo == 1 + 1
concurrency == 1

\* backoff type 'exponential': 2^(attemptsMade - 1) * delay after the
\* attemptsMade-th failure; the variant is type 'fixed'
BackoffFixed(attemptsMade) == jobBackoffDelay
Backoff(attemptsMade) == Pow2(attemptsMade - 1) * jobBackoffDelay

\* a job id: `scan-${Date.now()}` of addScanJob, or the id BullMQ gives an
\* occurrence of a repeatable job (repeat key and the millisecond of its slot)
JobId(kind, name, every, at) == [kind |-> kind, name |-> name, every |-> every, at |-> at]
ScanJobId(t) == JobId("scan", <<"scan">>, 0, t)
RepeatJobId(name, every, slot) == JobId("repeat", name, every, slot)

\* a job as the queue keeps it: runAt is the time a delayed job is due, and
\* with it are kept the number of times the worker started the job and, for
\* a job delayed for a retry, the time of the failure
NewJob(id, data, state, runAt) ==
    [id |-> id, data |-> data, state |-> state, runAt |-> runAt,
     attemptsMade |-> 0, starts |-> 0, lastFail |-> 0 - 1]

HasJob(jobs, id) == \E j \in jobs : j.id = id

\* Queue.add: an add whose jobId is already in the queue is ignored
QueueAdd(jobs, job) == IF HasJob(jobs, job.id) THEN jobs ELSE jobs \cup {job}

\* jobName of addRecurringScanJob
RecurringName(data) == <<"recurring-scan", data.platformA, data.platformB>>

\* the next slot of a repeat option {every}: the next multiple of every
NextMillis(t, every) == (t \div every) * every + every

\* Queue.removeRepeatable(name, {every}): drops the enrolment with that name
\* and that every, and its pending occurrence; nothing happens when there is
\* no such enrolment
RemoveRepeatableKey(repeat, name, every) ==
    {r \in repeat : ~(r.name = name /\ r.every = every)}
RemoveRepeatableJobs(jobs, name, every) ==
    {j \in jobs : ~(j.id.kind = "repeat" /\ j.id.name = name /\ j.id.every = every
                      /\ j.state = "delayed" /\ j.starts = 0)}

\* Queue.add(name, data, {repeat: {every}}): the enrolment, and its next
\* occurrence as a delayed job
AddRepeatKey(repeat, name, data, every) ==
    RemoveRepeatableKey(repeat, name, every)
      \cup {[name |-> name, every |-> every, data |-> data]}
AddRepeatJob(jobs, t, name, data, every) ==
    QueueAdd(jobs, NewJob(RepeatJobId(name, every, NextMillis(t, every)), data,
                          "delayed", NextMillis(t, every)))

\* addScanJob and addRecurringScanJob calls made in a run, together
MaxCalls == 2

\* the clock is moved a millisecond at a time during the first BurstMs
\* milliseconds, where calls made in quick succession land, and from one due
\* time to the next afterwards, up to MaxQueueMs
BurstMs == 1
MaxQueueMs == 36000

ScanJobDatas ==
    {[platformA |-> "POLYMARKET", platformB |-> "MANIFOLD", limit |-> 10]}

\* the arguments of addRecurringScanJob: (data, intervalSeconds)
EnrolChoices ==
    {<<[platformA |-> "POLYMARKET", platformB |-> "MANIFOLD", limit |-> 200], 60>>,
     <<[platformA |-> "POLYMARKET", platformB |-> "MANIFOLD", limit |-> 100], 60>>,
     <<[platformA |-> "POLYMARKET", platformB |-> "MANIFOLD", limit |-> 200], 30>>,
     <<[platformA |-> "KALSHI", platformB |-> "POLYMARKET", limit |-> 100], 60>>}

InitQueue ==
    /\ CalcIdle /\ RetryIdle /\ AdapterIdle /\ ScanIdle /\ MatchIdle /\ KvIdle
    /\ RoundTripIdle /\ ExtraIdle
    /\ quNow = 0
    /\ quJobs = {}
    /\ quRepeat = {}
    /\ quAdds = <<>>
    /\ quEnrols = <<>>
    /\ quFetching = {}

idleOfQueue == <<calcVars, retryVars, adapterVars, alertVars, scanVars, matchVars,
                 kvVars, rtpVars, extraVars>>

ActiveJobs == {j \in quJobs : j.state = "active"}

\* addScanJob(data)
AddScanJob ==
    \E data \in ScanJobDatas :
      /\ Len(quAdds) + Len(quEnrols) < MaxCalls
      /\ LET id == ScanJobId(quNow) IN
           /\ quJobs' = QueueAdd(quJobs, NewJob(id, data, "waiting", 0))
           /\ quAdds' = Append(quAdds, [id |-> id, data |-> data,
                                        added |-> ~HasJob(quJobs, id)])
      /\ UNCHANGED <<quNow, quRepeat, quEnrols, quFetching, idleOfQueue>>

\* addRecurringScanJob(data, intervalSeconds)
AddRecurringScanJob ==
    \E c \in EnrolChoices :
      LET data     == c[1]
          every    == c[2] * 1000
          jobName  == RecurringName(data)
          removed  == RemoveRepeatableJobs(quJobs, jobName, every)
      IN /\ Len(quAdds) + Len(quEnrols) < MaxCalls
         /\ quRepeat' = AddRepeatKey(RemoveRepeatableKey(quRepeat, jobName, every),
                                     jobName, data, every)
         /\ quJobs' = AddRepeatJob(removed, quNow, jobName, data, every)
         /\ quEnrols' = Append(quEnrols, [name |-> jobName, every |-> every,
                                          data |-> data])
         /\ UNCHANGED <<quNow, quAdds, quFetching, idleOfQueue>>

\* the worker takes a job that is waiting, or delayed and due, when it runs
\* fewer than concurrency jobs; taking an occurrence of an enrolment adds the
\* enrolment's next occurrence; processScanJob starts its two fetches
WorkerTakes ==
    \E j \in quJobs :
      /\ j.state = "waiting" \/ (j.state = "delayed" /\ j.runAt <= quNow)
      /\ Cardinality(ActiveJobs) < concurrency
      /\ LET taken == [j EXCEPT !.state = "active", !.starts = j.starts + 1,
                                 !.runAt = 0, !.lastFail = 0 - 1]
              rest  == (quJobs \ {j}) \cup {taken}
              enrolled == j.id.kind = "repeat"
                          /\ \E r \in quRepeat : r.name = j.id.name /\ r.every = j.id.every
         IN quJobs' = IF enrolled
                      THEN AddRepeatJob(rest, quNow, j.id.name, j.data, j.id.every)
                      ELSE rest
      /\ quFetching' = {"A", "B"}
      /\ UNCHANGED <<quNow, quRepeat, quAdds, quEnrols, idleOfQueue>>

\* one of the two fetches of Promise.all returns
FetchReturns ==
    \E side \in quFetching :
      /\ quFetching' = quFetching \ {side}
      /\ UNCHANGED <<quNow, quJobs, quRepeat, quAdds, quEnrols, idleOfQueue>>

\* processScanJob returns its ScanResult
WorkerCompletes ==
    \E j \in ActiveJobs :
      /\ quFetching = {}
      /\ quJobs' = (quJobs \ {j}) \cup {[j EXCEPT !.state = "completed"]}
      /\ UNCHANGED <<quNow, quRepeat, quAdds, quEnrols, quFetching, idleOfQueue>>

\* processScanJob throws: the job is delayed for a retry while it has attempts
\* left, and goes to the failed set otherwise
WorkerFails ==
    \E j \in ActiveJobs :
      LET made == j.attemptsMade + 1 IN
      /\ quJobs' = (quJobs \ {j}) \cup
                     {IF made < attempts
                      THEN [j EXCEPT !.state = "delayed", !.attemptsMade = made,
                                     !.lastFail = quNow,
                                     !.runAt = quNow + Backoff(made)]
                      ELSE [j EXCEPT !.state = "failed", !.attemptsMade = made]}
      /\ quFetching' = {}
      /\ UNCHANGED <<quNow, quRepeat, quAdds, quEnrols, idleOfQueue>>

\* the due times ahead
DueTimes == {j.runAt : j \in {d \in quJobs : d.state = "delayed" /\ d.runAt > quNow}}

\* time passes
TimePasses ==
    /\ \E t \in (IF quNow < BurstMs THEN {quNow + 1} ELSE {})
                 \cup {d \in DueTimes : \A e \in DueTimes : d <= e} :
         /\ t <= MaxQueueMs
         /\ quNow' = t
    /\ UNCHANGED <<quJobs, quRepeat, quAdds, quEnrols, quFetching, idleOfQueue>>

NextQueue ==
    \/ AddScanJob \/ AddRecurringScanJob \/ WorkerTakes \/ FetchReturns
    \/ WorkerCompletes \/ WorkerFails \/ TimePasses

SpecQueue == InitQueue /\ [][NextQueue]_vars

(***************************************************************************)
(* The scheduler process: src/unnamed/part_010 lines 98-199 (scheduler.ts), *)
(* its worker running processScanJob (src/src/services/queue.ts), the      *)
(* batch loop of sendAlerts (src/unnamed/part_007) and the shutdown        *)
(* handler.  BullMQ and ioredis are modelled by their contract: a Queue    *)
(* and a Worker given an ioredis instance send their commands on that      *)
(* instance; a Worker and a QueueEvents duplicate it for their blocking    *)
(* reads; worker.close() takes no further job, waits for the active job    *)
(* and closes the worker's own connection; queue.close() and               *)
(* queueEvents.close() release theirs.                                     *)
(***************************************************************************)
MaxJobRuns == 2
MaxBatch == 2

\* the awaited steps of processScanJob, in the order of the code
processScanJobStepsProgressEarly ==
    <<"progress10", "progress40", "fetch", "match", "progress70", "calculate",
      "progress90", "alerts", "cacheLatest", "cacheResults", "progress100">>
processScanJobSteps ==
    <<"progress10", "fetch", "progress40", "match", "progress70", "calculate",
      "progress90", "alerts", "cacheLatest", "cacheResults", "progress100">>

\* the step the active job runs next
Step == IF wkPc = 0 THEN "none" ELSE processScanJobSteps[wkPc]

ProgressSteps == {"progress10", "progress40", "progress70", "progress90", "progress100"}

\* the argument of job.updateProgress
ProgressOf(ev) ==
    CASE ev = "progress10" -> 10
      [] ev = "progress40" -> 40
      [] ev = "progress70" -> 70
      [] ev = "progress90" -> 90
      [] ev = "progress100" -> 100

\* the connections: the client of redis.ts, which Cache, scanQueue and the
\* worker's commands share, and the duplicates of the worker and queueEvents
Connections == {"redis", "workerBlocking", "queueEvents"}

\* await new Promise(resolve => setTimeout(resolve, 2000)) inside the loop,
\* skipped for a batch of one
pacingDelayNone(length) == 0
pacingDelay(length) == IF length > 1 THEN 2000 ELSE 0

\* how long a webhook POST takes, and how late a timer may fire (ms)
PostDurations == {0, 300}
TimerLateness == {0, 50}

InitWorker ==
    /\ CalcIdle /\ RetryIdle /\ AdapterIdle /\ ScanIdle /\ MatchIdle /\ KvIdle
    /\ RoundTripIdle /\ QueueIdle /\ LimiterIdle /\ RerunIdle /\ AttemptsIdle
    /\ StopIdle
    /\ wkNow = 0 /\ wkJobs = 0 /\ wkPc = 0 /\ wkFetching = {} /\ wkOrphans = {}
    /\ wkLog = <<>> /\ wkBatch = 0 /\ wkIdx = 0 /\ wkAlert = "none"
    /\ wkPosts = <<>> /\ wkOutcome = "none" /\ wkOnClosed = FALSE
    /\ shPc = "running" /\ shSignal = NoSignal
    /\ cnOpen = Connections

idleOfWorker == <<calcVars, retryVars, adapterVars, alertVars, scanVars, matchVars,
                  kvVars, rtpVars, queueVars, limVars, rerunVars, attemptVars, stopVars>>

shutdownVars == <<shPc, shSignal, cnOpen>>
batchVars == <<wkBatch, wkIdx, wkAlert, wkPosts>>

\* a command sent on the shared client: it fails when the client has quit
CommandOnClosed == wkOnClosed \/ "redis" \notin cnOpen

\* the job moves on to its next step; after the last one processScanJob returns
StepDone(event) ==
    /\ wkLog' = Append(wkLog, event)
    /\ IF wkPc = Len(processScanJobSteps)
       THEN wkPc' = 0 /\ wkOutcome' = "completed"
       ELSE wkPc' = wkPc + 1 /\ UNCHANGED wkOutcome

\* the worker takes the next job of the queue
WorkerTakesJob ==
    /\ shPc = "running"
    /\ wkPc = 0
    /\ wkJobs < MaxJobRuns
    /\ wkJobs' = wkJobs + 1
    /\ wkPc' = 1
    /\ wkLog' = <<>>
    /\ wkBatch' = 0 /\ wkIdx' = 0 /\ wkAlert' = "none" /\ wkPosts' = <<>>
    /\ wkOutcome' = "none"
    /\ wkOnClosed' = CommandOnClosed
    /\ UNCHANGED <<wkNow, wkFetching, wkOrphans, shutdownVars, idleOfWorker>>

\* await job.updateProgress(n)
UpdateProgress ==
    /\ Step \in ProgressSteps
    /\ StepDone(Step)
    /\ wkOnClosed' = CommandOnClosed
    /\ UNCHANGED <<wkNow, wkJobs, wkFetching, wkOrphans, batchVars, shutdownVars,
                   idleOfWorker>>

\* Promise.all([...]) calls both fetchMarketsWithCache, each of which reads
\* the cache first
StartFetches ==
    /\ Step = "fetch"
    /\ wkFetching = {}
    /\ wkFetching' = {"A", "B"}
    /\ wkLog' = wkLog \o <<"fetchStartA", "fetchStartB">>
    /\ wkOnClosed' = CommandOnClosed
    /\ UNCHANGED <<wkNow, wkJobs, wkPc, wkOrphans, wkOutcome, batchVars, shutdownVars,
                   idleOfWorker>>

\* one fetchMarketsWithCache returns; Promise.all resolves with the second
FetchResolves ==
    \E side \in wkFetching :
      /\ Step = "fetch"
      /\ wkFetching' = wkFetching \ {side}
      /\ LET event == IF side = "A" THEN "fetchEndA" ELSE "fetchEndB" IN
           IF wkFetching = {side}
           THEN StepDone(event)
           ELSE /\ wkLog' = Append(wkLog, event)
                /\ UNCHANGED <<wkPc, wkOutcome>>
      /\ wkOnClosed' = CommandOnClosed
      /\ UNCHANGED <<wkNow, wkJobs, wkOrphans, batchVars, shutdownVars, idleOfWorker>>

\* one fetchMarketsWithCache throws: Promise.all rejects, the catch block
\* rethrows and the attempt has failed; the other fetch is not cancelled
FetchRejects ==
    \E side \in wkFetching :
      /\ Step = "fetch"
      /\ wkOrphans' = wkOrphans \cup (wkFetching \ {side})
      /\ wkFetching' = {}
      /\ wkLog' = Append(wkLog, "threw")
      /\ wkPc' = 0
      /\ wkOutcome' = "failed"
      /\ UNCHANGED <<wkNow, wkJobs, wkOnClosed, batchVars, shutdownVars, idleOfWorker>>

\* a fetch left behind by a failed attempt ends
OrphanEnds ==
    \E side \in wkOrphans :
      /\ wkOrphans' = wkOrphans \ {side}
      /\ UNCHANGED <<wkNow, wkJobs, wkPc, wkFetching, wkLog, wkOutcome, wkOnClosed,
                     batchVars, shutdownVars, idleOfWorker>>

\* matcher.findMatches(marketsA, marketsB)
FindMatches ==
    /\ Step = "match"
    /\ StepDone("matched")
    /\ UNCHANGED <<wkNow, wkJobs, wkFetching, wkOrphans, wkOnClosed, batchVars,
                   shutdownVars, idleOfWorker>>

\* calculator.findArbitrageOpportunities(matches); some of the opportunities
\* meet the alert threshold
Calculate ==
    /\ Step = "calculate"
    /\ StepDone("calculated")
    /\ wkBatch' \in 0..MaxBatch
    /\ UNCHANGED <<wkNow, wkJobs, wkFetching, wkOrphans, wkOnClosed, wkIdx, wkAlert,
                   wkPosts, shutdownVars, idleOfWorker>>

\* if (alertableOpportunities.length > 0) is false
NoAlerts ==
    /\ Step = "alerts"
    /\ wkBatch = 0
    /\ wkPc' = wkPc + 1
    /\ UNCHANGED <<wkNow, wkJobs, wkFetching, wkOrphans, wkLog, wkOutcome, wkOnClosed,
                   batchVars, shutdownVars, idleOfWorker>>

\* await sendAlerts(alertableOpportunities) is called
SendAlertsStarts ==
    /\ Step = "alerts"
    /\ wkBatch > 0
    /\ wkAlert = "none"
    /\ wkAlert' = "next"
    /\ wkLog' = Append(wkLog, "alertsStart")
    /\ UNCHANGED <<wkNow, wkJobs, wkPc, wkFetching, wkOrphans, wkOutcome, wkOnClosed,
                   wkBatch, wkIdx, wkPosts, shutdownVars, idleOfWorker>>

\* sendArbitrageAlert has returned for the current opportunity: the loop
\* sleeps when the batch has several opportunities, else it goes on
AfterAlert ==
    IF pacingDelay(wkBatch) > 0
    THEN /\ wkAlert' = "sleeping"
         /\ UNCHANGED <<wkIdx, wkPc, wkLog, wkOutcome>>
    ELSE /\ wkIdx' = wkIdx + 1
         /\ IF wkIdx + 1 = wkBatch
            THEN wkAlert' = "none" /\ StepDone("alertsEnd")
            ELSE wkAlert' = "next" /\ UNCHANGED <<wkPc, wkLog, wkOutcome>>

\* sendArbitrageAlert returns without a POST: alerts disabled, or the pair is
\* in cooldown (a Cache.exists on the shared client)
AlertSuppressed ==
    /\ wkAlert = "next"
    /\ AfterAlert
    /\ wkOnClosed' = CommandOnClosed
    /\ UNCHANGED <<wkNow, wkJobs, wkFetching, wkOrphans, wkBatch, wkPosts,
                   shutdownVars, idleOfWorker>>

\* sendToDiscord: await fetch(webhookUrl, {method: 'POST', ...})
PostStarts ==
    /\ wkAlert = "next"
    /\ wkAlert' = "posting"
    /\ wkPosts' = Append(wkPosts, [idx |-> wkIdx + 1, start |-> wkNow, end |-> 0 - 1])
    /\ wkOnClosed' = CommandOnClosed
    /\ UNCHANGED <<wkNow, wkJobs, wkPc, wkFetching, wkOrphans, wkLog, wkOutcome,
                   wkBatch, wkIdx, shutdownVars, idleOfWorker>>

\* the POST is answered (or fails); markAlerted or the catch block follows
PostEnds ==
    \E d \in PostDurations :
      /\ wkAlert = "posting"
      /\ wkNow' = wkNow + d
      /\ wkPosts' = [wkPosts EXCEPT ![Len(wkPosts)].end = wkNow + d]
      /\ AfterAlert
      /\ wkOnClosed' = CommandOnClosed
      /\ UNCHANGED <<wkJobs, wkFetching, wkOrphans, wkBatch, shutdownVars,
                     idleOfWorker>>

\* the pacing timer fires and the loop moves to the next opportunity
PacingSleepEnds ==
    \E late \in TimerLateness :
      /\ wkAlert = "sleeping"
      /\ wkNow' = wkNow + pacingDelay(wkBatch) + late
      /\ wkIdx' = wkIdx + 1
      /\ IF wkIdx + 1 = wkBatch
         THEN wkAlert' = "none" /\ StepDone("alertsEnd")
         ELSE wkAlert' = "next" /\ UNCHANGED <<wkPc, wkLog, wkOutcome>>
      /\ UNCHANGED <<wkJobs, wkFetching, wkOrphans, wkOnClosed, wkBatch, wkPosts,
                     shutdownVars, idleOfWorker>>

\* await Cache.set(CacheKeys.opportunities(), result, 120)
CacheLatest ==
    /\ Step = "cacheLatest"
    /\ StepDone("cachedLatest")
    /\ wkOnClosed' = CommandOnClosed
    /\ UNCHANGED <<wkNow, wkJobs, wkFetching, wkOrphans, batchVars, shutdownVars,
                   idleOfWorker>>

\* await Cache.set(CacheKeys.scanResults(result.timestamp), result, 3600)
CacheScanResults ==
    /\ Step = "cacheResults"
    /\ StepDone("cachedResults")
    /\ wkOnClosed' = CommandOnClosed
    /\ UNCHANGED <<wkNow, wkJobs, wkFetching, wkOrphans, batchVars, shutdownVars,
                   idleOfWorker>>

jobVars == <<wkNow, wkJobs, wkPc, wkFetching, wkOrphans, wkLog, wkOutcome, wkOnClosed,
             batchVars>>

\* SIGINT or SIGTERM: shutdown() runs up to await worker.close()
Signal ==
    \E kind \in {"SIGINT", "SIGTERM"} :
      /\ shPc = "running"
      /\ shPc' = "closingWorker"
      /\ shSignal' = [kind |-> kind, at |-> wkNow, jobs |-> wkJobs,
                      inBatch |-> wkAlert # "none" /\ wkBatch > 1]
      /\ UNCHANGED <<cnOpen, jobVars, idleOfWorker>>

\* worker.close() resolves: no job is active any more
WorkerClosed ==
    /\ shPc = "closingWorker"
    /\ wkPc = 0
    /\ shPc' = "closingRedis"
    /\ cnOpen' = cnOpen \ {"workerBlocking"}
    /\ UNCHANGED <<shSignal, jobVars, idleOfWorker>>

\* await closeRedis() (redis.quit()) resolves and process.exit(0) follows in
\* the same turn
CloseRedisAndExit ==
    /\ shPc = "closingRedis"
    /\ cnOpen' = cnOpen \ {"redis"}
    /\ shPc' = "exited"
    /\ UNCHANGED <<shSignal, jobVars, idleOfWorker>>

NextWorker ==
    \/ WorkerTakesJob
    \/ UpdateProgress
    \/ StartFetches
    \/ FetchResolves
    \/ FetchRejects
    \/ OrphanEnds
    \/ FindMatches
    \/ Calculate
    \/ NoAlerts
    \/ SendAlertsStarts
    \/ AlertSuppressed
    \/ PostStarts
    \/ PostEnds
    \/ PacingSleepEnds
    \/ CacheLatest
    \/ CacheScanResults
    \/ Signal
    \/ WorkerClosed
    \/ CloseRedisAndExit

SpecWorker == InitWorker /\ [][NextWorker]_vars

(***************************************************************************)
(* Rate limiters: src/src/utils/rateLimiter.ts, and the requests the       *)
(* adapters' fetchMarkets hand to them (limiter.schedule inside the        *)
(* operation retryWithBackoff calls).  Bottleneck is modelled by its       *)
(* contract: a job starts when fewer than maxConcurrent jobs run, the      *)
(* reservoir holds a token (the start takes one) and minTime has passed    *)
(* since the last start; every reservoirRefreshInterval the reservoir is   *)
(* set to reservoirRefreshAmount.                                          *)
(***************************************************************************)
\* the settings of polyMarketLimiter, manifoldLimiter and kalshiLimiter
LimiterSettings(platform) ==
    CASE platform = "POLYMARKET" ->
            [maxConcurrent |-> 5, minTime |-> 100, reservoir |-> 50,
             reservoirRefreshAmount |-> 50, reservoirRefreshInterval |-> 5000]
      [] platform = "MANIFOLD" ->
            [maxConcurrent |-> 3, minTime |-> 200, reservoir |-> 25,
             reservoirRefreshAmount |-> 25, reservoirRefreshInterval |-> 5000]
      [] platform = "KALSHI" ->
            [maxConcurrent |-> 2, minTime |-> 500, reservoir |-> 10,
             reservoirRefreshAmount |-> 10, reservoirRefreshInterval |-> 5000]

\* the clock of the limiter model moves in steps of LimTick ms (the smallest
\* minTime) up to MaxLimMs;
\* at most MaxPending requests of a platform are queued, running or backing
\* off together; the gaps between the last GapsKept + 1 starts are kept
LimTick == LimiterSettings("POLYMARKET").minTime
MaxLimMs == 5200
MaxPending == 6
GapsKept == 2

lmSettings == LimiterSettings(lmPlatform)

\* lmSince before the first start
NeverStarted == 0 - 1

InitLimiter ==
    /\ CalcIdle /\ RetryIdle /\ AdapterIdle /\ ScanIdle /\ MatchIdle /\ KvIdle
    /\ RoundTripIdle /\ QueueIdle /\ WorkerIdle /\ RerunIdle /\ AttemptsIdle
    /\ StopIdle
    /\ lmPlatform \in Platforms
    /\ lmNow = 0
    /\ lmRunning = 0 /\ lmQueued = 0 /\ lmBackoff = 0
    /\ lmReservoir = LimiterSettings(lmPlatform).reservoir
    /\ lmSince = NeverStarted
    /\ lmGaps = <<>>
    /\ lmWindowStarts = 0

idleOfLimiter == <<calcVars, retryVars, adapterVars, alertVars, scanVars, matchVars,
                   kvVars, rtpVars, queueVars, workerVars, rerunVars, attemptVars,
                   stopVars>>

\* the limiter lets a job start
CanStart ==
    /\ lmRunning < lmSettings.maxConcurrent
    /\ lmReservoir > 0
    /\ lmSince = NeverStarted \/ lmSince >= lmSettings.minTime

\* a start as the limiter's bookkeeping sees it
RecordStart ==
    /\ lmRunning' = lmRunning + 1
    /\ lmSince' = 0
    /\ lmGaps' = IF lmSince = NeverStarted
                 THEN <<>>
                 ELSE SubSeq(<<lmSince>> \o lmGaps, 1, Min(GapsKept, Len(lmGaps) + 1))
    /\ lmWindowStarts' = lmWindowStarts + 1

\* what the driver does with a failed attempt after its sleep: it calls
\* operation() again, which hands the request to limiter.schedule
retryPathDirect == "request"
retryPath == "schedule"

\* fetchMarkets is called: the first attempt is handed to limiter.schedule
Schedule ==
    /\ lmQueued + lmRunning + lmBackoff < MaxPending
    /\ lmQueued' = lmQueued + 1
    /\ UNCHANGED <<lmPlatform, lmNow, lmRunning, lmBackoff, lmReservoir, lmSince,
                   lmGaps, lmWindowStarts, idleOfLimiter>>

\* the limiter starts a queued request: axios.get is issued
LimiterStarts ==
    /\ lmQueued > 0
    /\ CanStart
    /\ lmQueued' = lmQueued - 1
    /\ lmReservoir' = lmReservoir - 1
    /\ RecordStart
    /\ UNCHANGED <<lmPlatform, lmNow, lmBackoff, idleOfLimiter>>

\* a request ends: fetchMarkets returns or throws for good
RequestEnds ==
    /\ lmRunning > 0
    /\ lmRunning' = lmRunning - 1
    /\ UNCHANGED <<lmPlatform, lmNow, lmQueued, lmBackoff, lmReservoir, lmSince,
                   lmGaps, lmWindowStarts, idleOfLimiter>>

\* a request fails with a retryable error: the driver sleeps
RequestFailsRetryable ==
    /\ lmRunning > 0
    /\ lmRunning' = lmRunning - 1
    /\ lmBackoff' = lmBackoff + 1
    /\ UNCHANGED <<lmPlatform, lmNow, lmQueued, lmReservoir, lmSince, lmGaps,
                   lmWindowStarts, idleOfLimiter>>

\* the sleep of the driver ends and the next attempt begins
RetryAttempt ==
    /\ lmBackoff > 0
    /\ lmBackoff' = lmBackoff - 1
    /\ IF retryPath = "schedule"
       THEN /\ lmQueued' = lmQueued + 1
            /\ UNCHANGED <<lmRunning, lmSince, lmGaps, lmWindowStarts>>
       ELSE /\ RecordStart
            /\ UNCHANGED lmQueued
    /\ UNCHANGED <<lmPlatform, lmNow, lmReservoir, idleOfLimiter>>

\* LimTick ms pass; on a multiple of reservoirRefreshInterval the reservoir
\* is refilled
LimiterTick ==
    /\ lmNow + LimTick <= MaxLimMs
    /\ lmNow' = lmNow + LimTick
    /\ lmSince' = IF lmSince = NeverStarted THEN NeverStarted
                  ELSE Min(lmSince + LimTick, lmSettings.minTime)
    /\ IF (lmNow + LimTick) % lmSettings.reservoirRefreshInterval = 0
       THEN /\ lmReservoir' = lmSettings.reservoirRefreshAmount
            /\ lmWindowStarts' = 0
       ELSE UNCHANGED <<lmReservoir, lmWindowStarts>>
    /\ UNCHANGED <<lmPlatform, lmRunning, lmQueued, lmBackoff, lmGaps, idleOfLimiter>>

NextLimiter ==
    \/ Schedule
    \/ LimiterStarts
    \/ RequestEnds
    \/ RequestFailsRetryable
    \/ RetryAttempt
    \/ LimiterTick

SpecLimiter == InitLimiter /\ [][NextLimiter]_vars

(***************************************************************************)
(* Rate limiter claim                                                      *)
(***************************************************************************)
\* the limits the claim names, per platform
ClaimedMaxConcurrent ==
    CASE lmPlatform = "POLYMARKET" -> 5 [] lmPlatform = "MANIFOLD" -> 3 [] OTHER -> 2
ClaimedCapacity ==
    CASE lmPlatform = "POLYMARKET" -> 50 [] lmPlatform = "MANIFOLD" -> 25 [] OTHER -> 10

\* the time the last K starts took, each gap counted up to minInterval
RECURSIVE SpanOfStarts(_)
SpanOfStarts(K) == IF K <= 1 THEN 0 ELSE lmGaps[K - 1] + SpanOfStarts(K - 1)

\* C22: every HTTP request of fetchMarkets, each retry attempt included,
\* starts only when fewer than maxConcurrent requests are in flight, the
\* reservoir holds a token and minInterval has passed since the previous
\* start; so at every moment the requests in flight are at most maxConcurrent
\* (PM 5, MAN 3, KAL 2), the starts within one refill interval at most the
\* reservoir capacity (50/25/10), and K back-to-back starts take at least
\* (K-1) * minInterval.
C22_LimiterAdmission ==
    lmPlatform # "none" =>
        /\ lmRunning <= ClaimedMaxConcurrent
        /\ lmWindowStarts <= ClaimedCapacity
        /\ lmReservoir >= 0
        /\ \A K \in 2..(Len(lmGaps) + 1) :
              SpanOfStarts(K) >= (K - 1) * lmSettings.minTime

\* the limiter at its concurrency limit with a request waiting, after
\* back-to-back starts and a retry
C22_Witness ==
    /\ lmRunning = ClaimedMaxConcurrent
    /\ lmQueued > 0
    /\ lmBackoff > 0
    /\ Len(lmGaps) = GapsKept
    /\ lmSince >= lmSettings.minTime

(***************************************************************************)
(* processScanJob run repeatedly by one worker, each run taken as a whole: *)
(* src/src/services/queue.ts lines 84-198.  The ranker of the matcher      *)
(* (Fuse.js) is a function of its input: what it answers for a target      *)
(* market is drawn once and stays the same for every run.                  *)
(***************************************************************************)
MaxRuns == 3

\* the webhook answers every POST with 2xx; a failing sendToDiscord is followed
\* in the deployments that leave the webhook URL unset
RerunOutcome == "ok"

\* gaps, in seconds, between the end of a run and the start of the next: jobs
\* queued back to back, and the 60 s repeat
RerunGaps == {0, 60}

\* findMatches with the ranker's answers: each market of A, in order, is
\* paired with the market of B the ranker names for it, if any
RECURSIVE findMatchesWith(_, _, _)
findMatchesWith(ranker, A, B) ==
    IF A = <<>> THEN <<>>
    ELSE LET j == ranker[Head(A).id]
             rest == findMatchesWith(ranker, Tail(A), B)
         IN IF j >= 1 /\ j <= Len(B) THEN <<Match(Head(A), B[j])>> \o rest ELSE rest

\* timestamp: new Date() of an opportunity
Stamped(opportunities, t) ==
    [i \in 1..Len(opportunities) |-> [opp |-> opportunities[i], timestamp |-> t]]

\* sendAlerts from the k-th opportunity on: [cache, now, posted, threw]; the
\* result r of the k-th sendArbitrageAlert is computed once
RECURSIVE sendAlertsFrom(_, _, _, _, _, _)
sendAlertsFrom(cfg, c, t, batch, outcomes, k) ==
    IF k > Len(batch)
    THEN [cache |-> c, now |-> t, posted |-> 0, threw |-> FALSE]
    ELSE CHOOSE out \in
           { IF r.threw
             THEN [cache |-> r.cache, now |-> t,
                   posted |-> IF r.posted THEN 1 ELSE 0, threw |-> TRUE]
             ELSE LET t2 == t + PacingSeconds(batch)
                      rest == sendAlertsFrom(cfg, Purge(r.cache, t2), t2, batch,
                                             outcomes, k + 1)
                  IN [rest EXCEPT !.posted = @ + IF r.posted THEN 1 ELSE 0]
             : r \in {sendArbitrageAlert(cfg, c, t, batch[k], outcomes[k])} } : TRUE

\* the end of processScanJob(job) started at time t: ra and rb are the two
\* fetchMarketsWithCache results, sent what sendAlerts left.  [run, cache, now]
runScanJob(data, t, ra, rb, matches, opportunities, alertable, sent) ==
    LET markets == [A |-> ra.markets, B |-> rb.markets]
        read == [data |-> data, hitA |-> ra.hit, hitB |-> rb.hit, markets |-> markets,
                 alertable |-> Len(alertable), posted |-> sent.posted]
    IN IF sent.threw
       THEN [run |-> [read |-> read, kind |-> "failed", timestamp |-> sent.now,
                      opportunities |-> <<>>, matchesFound |-> 0,
                      marketsScanned |-> <<>>],
             cache |-> sent.cache, now |-> sent.now]
       ELSE LET result == [timestamp |-> sent.now,
                           opportunities |-> Stamped(opportunities, t),
                           marketsScanned |-> MarketsScanned(data, markets),
                           matchesFound |-> Len(matches)]
                c1 == CacheSet(sent.cache, sent.now, OpportunitiesKey,
                               [kind |-> "scanResult", result |-> result], 120)
                c2 == CacheSet(c1, sent.now, ScanResultsKey(result.timestamp),
                               [kind |-> "scanResult", result |-> result], 3600)
            IN [run |-> [read |-> read, kind |-> "completed",
                         timestamp |-> result.timestamp,
                         opportunities |-> result.opportunities,
                         matchesFound |-> result.matchesFound,
                         marketsScanned |-> result.marketsScanned],
                cache |-> c2, now |-> sent.now]

InitRerun ==
    /\ CalcIdle /\ RetryIdle /\ AdapterIdle /\ ScanIdle /\ MatchIdle /\ KvIdle
    /\ RoundTripIdle /\ QueueIdle /\ WorkerIdle /\ LimiterIdle /\ AttemptsIdle
    /\ StopIdle
    /\ rrCfg \in AlertConfigs
    /\ rrNow = 0
    /\ rrCache = {}
    /\ rrRanker \in [{MarketsPM[i].id : i \in 1..Len(MarketsPM)} -> 0..Len(MarketsMAN)]
    /\ rrCount = 0
    /\ rrRuns = <<>>

idleOfRerun == <<calcVars, retryVars, adapterVars, alertVars, scanVars, matchVars,
                 kvVars, rtpVars, queueVars, workerVars, limVars, attemptVars, stopVars>>

\* what the adapter of a platform may return to a run; it is asked only when
\* the platform's list is not in the cache
FreshLists(c, t, platform, limit) ==
    IF CacheHas(c, t, MarketsKey(platform)) THEN {<<>>}
    ELSE AdapterLists(platform, limit)

\* the next job becomes due after a gap and the worker runs it to its end:
\* processScanJob step by step, each step's value computed once.  `a` and `b`
\* are what the adapters would return
RunScanJob ==
    /\ rrCount < MaxRuns
    /\ \E data \in ScanJobs, d \in (IF rrCount = 0 THEN {0} ELSE RerunGaps) :
        \E t \in {rrNow + d} :
        \E c \in {Purge(rrCache, t)} :
        \E a \in FreshLists(c, t, data.platformA, data.limit),
           b \in FreshLists(c, t, data.platformB, data.limit) :
        \E ra \in {fetchMarketsWithCache(c, t, data.platformA, data.limit, a)} :
        \E rb \in {fetchMarketsWithCache(ra.cache, t, data.platformB, data.limit, b)} :
        \E matches \in {findMatchesWith(rrRanker, ra.markets, rb.markets)} :
        \E opportunities \in {findArbitrageOpportunities(matches)} :
        \E alertable \in {SelectSeq(opportunities,
                                    LAMBDA o : meetsAlertThreshold(rrCfg, o))} :
        \E sent \in {sendAlertsFrom(rrCfg, rb.cache, t, alertable,
                                    [k \in 1..(2 * Len(MarketsPM)) |-> RerunOutcome],
                                    1)} :
        \E r \in {runScanJob(data, t, ra, rb, matches, opportunities, alertable,
                             sent)} :
           /\ rrRuns' = IF rrRuns = <<>> THEN <<r.run>>
                        ELSE <<rrRuns[Len(rrRuns)], r.run>>
           /\ rrCache' = r.cache
           /\ rrNow' = r.now
    /\ rrCount' = rrCount + 1
    /\ UNCHANGED <<rrCfg, rrRanker, idleOfRerun>>

NextRerun == RunScanJob

SpecRerun == InitRerun /\ [][NextRerun]_vars

(***************************************************************************)
(* One scan job through its attempts: the job options of scanQueue         *)
(* (src/src/services/queue.ts lines 48-64), the two fetchMarketsWithCache  *)
(* calls of processScanJob (lines 95-98, 156-182) and the retry loop of    *)
(* adapter.fetchMarkets (src/unnamed/part_009, src/unnamed/part_002).      *)
(* Every HTTP request the job causes is counted, by attempt and platform.  *)
(***************************************************************************)
\* the options the adapters' fetchMarkets hands to retryWithBackoff
fetchMarketsRetry ==
    [maxRetries |-> 3, initialDelay |-> 1000, maxDelay |-> 10000,
     shouldRetry |-> "adapter"]

\* job.data of the jobs followed: ScanJobData.platformA and platformB are
\* strings, and neither addScanJob nor processScanJob compares them
AttemptJobDatas ==
    {[platformA |-> "POLYMARKET", platformB |-> "MANIFOLD"],
     [platformA |-> "KALSHI", platformB |-> "POLYMARKET"],
     [platformA |-> "KALSHI", platformB |-> "MANIFOLD"],
     [platformA |-> "POLYMARKET", platformB |-> "POLYMARKET"]}

Sides == {"A", "B"}

PlatformOfSide(data, side) == IF side = "A" THEN data.platformA ELSE data.platformB

InitAttempts ==
    /\ CalcIdle /\ RetryIdle /\ AdapterIdle /\ ScanIdle /\ MatchIdle /\ KvIdle
    /\ RoundTripIdle /\ QueueIdle /\ WorkerIdle /\ LimiterIdle /\ RerunIdle /\ StopIdle
    /\ jaData \in AttemptJobDatas
    /\ jaState = "waiting"
    /\ jaStarts = 0
    /\ jaFetches = {}
    /\ jaCached \in SUBSET {jaData.platformA, jaData.platformB}
    /\ jaHits = {}
    /\ jaRequests = [k \in (1..attempts) \X Platforms |-> 0]

idleOfAttempts == <<calcVars, retryVars, adapterVars, alertVars, scanVars, matchVars,
                    kvVars, rtpVars, queueVars, workerVars, limVars, rerunVars, stopVars>>

\* the worker starts the job, for the first time or for a retry: processScanJob
\* calls fetchMarketsWithCache for both sides, each reads markets:<P>; a side
\* that misses calls adapter.fetchMarkets when the platform has an adapter
\* branch, and caches the empty list at once when it has none
StartAttempt ==
    /\ jaState \in {"waiting", "delayed"}
    /\ LET n      == jaStarts + 1
           missed == {s \in Sides : PlatformOfSide(jaData, s) \notin jaCached}
           calls  == {[attempt |-> n, side |-> s, platform |-> PlatformOfSide(jaData, s),
                       i |-> 0] :
                         s \in {m \in missed : HasAdapterBranch(PlatformOfSide(jaData, m))}}
       IN /\ jaStarts' = n
          /\ jaHits' = jaHits \cup {<<n, PlatformOfSide(jaData, s)>> : s \in Sides \ missed}
          /\ jaFetches' = jaFetches \cup calls
          /\ jaCached' = jaCached \cup
                           {PlatformOfSide(jaData, s) :
                              s \in {m \in missed : ~HasAdapterBranch(PlatformOfSide(jaData, m))}}
          /\ jaState' = IF calls = {} THEN "completed" ELSE "active"
    /\ UNCHANGED <<jaData, jaRequests, idleOfAttempts>>

\* how an iteration of retryWithBackoff around operation() can end for an
\* adapter: the list is returned, the error is slept on, or the error is one
\* the adapters' shouldRetry refuses
IterationEnd(platform, raw) ==
    CHOOSE end \in { IF r.ok THEN "returned"
                     ELSE IF shouldRetry(fetchMarketsRetry.shouldRetry, r.error)
                          THEN "retryable" ELSE "final" :
                       r \in {operation(ErrorPlatform(platform), raw, 1)} } : TRUE
IterationEnds(platform) == {IterationEnd(platform, raw) : raw \in RawOutcomes}

\* the fetches of the attempt the worker is running
FetchesOfActiveAttempt ==
    IF jaState = "active" THEN {f \in jaFetches : f.attempt = jaStarts} ELSE {}

\* one iteration of retryWithBackoff in a fetchMarkets call whose HTTP request
\* is answered well: the list is returned and cached under markets:<P>; the
\* attempt goes on to its end when it waits for no other fetch
FetchRequestReturns ==
    \E f \in jaFetches :
      /\ f.i < fetchMarketsRetry.maxRetries
      /\ "returned" \in IterationEnds(f.platform)
      /\ jaRequests' = [jaRequests EXCEPT ![<<f.attempt, f.platform>>] = @ + 1]
      /\ jaFetches' = jaFetches \ {f}
      /\ jaCached' = jaCached \cup {f.platform}
      /\ jaState' = IF FetchesOfActiveAttempt = {f} THEN "completed" ELSE jaState
      /\ UNCHANGED <<jaData, jaStarts, jaHits, idleOfAttempts>>

\* the job's failure: delayed for a retry while it has attempts left
FailedState == IF jaStarts < attempts THEN "delayed" ELSE "failed"

\* one iteration whose HTTP request fails: the loop sleeps and goes on, or the
\* error leaves fetchMarkets, rejects Promise.all and fails the attempt; the
\* other fetch of the attempt is not cancelled
FetchRequestThrows ==
    \E f \in jaFetches :
     \E end \in IterationEnds(f.platform) \ {"returned"} :
      /\ f.i < fetchMarketsRetry.maxRetries
      /\ jaRequests' = [jaRequests EXCEPT ![<<f.attempt, f.platform>>] = @ + 1]
      /\ IF isLastAttempt(fetchMarketsRetry, f.i) \/ end = "final"
         THEN /\ jaFetches' = jaFetches \ {f}
              /\ jaState' = IF f \in FetchesOfActiveAttempt THEN FailedState ELSE jaState
         ELSE /\ jaFetches' = (jaFetches \ {f}) \cup {[f EXCEPT !.i = f.i + 1]}
              /\ jaState' = jaState
      /\ UNCHANGED <<jaData, jaStarts, jaCached, jaHits, idleOfAttempts>>

\* the 120 s of a markets:<P> key run out
MarketsKeyExpires ==
    \E p \in jaCached :
      /\ jaCached' = jaCached \ {p}
      /\ UNCHANGED <<jaData, jaState, jaStarts, jaFetches, jaHits, jaRequests,
                     idleOfAttempts>>

NextAttempts ==
    StartAttempt \/ FetchRequestReturns \/ FetchRequestThrows \/ MarketsKeyExpires

SpecAttempts == InitAttempts /\ [][NextAttempts]_vars

\* HTTP requests issued to a platform for the job, over all its attempts
RECURSIVE RequestsUpTo(_, _)
RequestsUpTo(p, n) == IF n = 0 THEN 0 ELSE jaRequests[<<n, p>>] + RequestsUpTo(p, n - 1)
TotalRequests(p) == RequestsUpTo(p, attempts)

(***************************************************************************)
(* The signal handlers and the stats interval of the scheduler process:    *)
(* src/unnamed/part_010 lines 159-187, closeRedis (src/src/services/       *)
(* redis.ts lines 164-167), getQueueStats (src/src/services/queue.ts lines *)
(* 273-290) and Cache.getStats (redis.ts lines 134-146).  scanQueue is     *)
(* built with `connection: redis`, so its count commands and the commands  *)
(* of Cache go out on the one client of redis.ts.  A second worker.close() *)
(* waits with the first for the worker to close (BullMQ's contract).       *)
(***************************************************************************)
\* signals delivered to the process, and firings of the stats interval
MaxSignals == 2
MaxStatsTicks == 2

InitStop ==
    /\ CalcIdle /\ RetryIdle /\ AdapterIdle /\ ScanIdle /\ MatchIdle /\ KvIdle
    /\ RoundTripIdle /\ QueueIdle /\ WorkerIdle /\ LimiterIdle /\ RerunIdle
    /\ AttemptsIdle
    /\ sdRuns = <<>>
    /\ sdJobActive \in BOOLEAN
    /\ sdRedis = "open"
    /\ sdStats = "idle"
    /\ sdTicks = 0
    /\ sdWorkerCloseCalls = 0
    /\ sdCloseRedisCalls = 0
    /\ sdAfterQuit = {}
    /\ sdExited = FALSE

idleOfStop == <<calcVars, retryVars, adapterVars, alertVars, scanVars, matchVars,
                kvVars, rtpVars, queueVars, workerVars, limVars, rerunVars, attemptVars>>

\* a command handed to the client of redis.ts: noted when closeRedis() has begun
StartedOnClient(command) == IF sdRedis = "open" THEN sdAfterQuit ELSE sdAfterQuit \cup {command}

\* the worker takes a job; a closing worker takes none
StopJobStarts ==
    /\ ~sdExited /\ ~sdJobActive /\ sdRuns = <<>>
    /\ sdJobActive' = TRUE
    /\ UNCHANGED <<sdRuns, sdRedis, sdStats, sdTicks, sdWorkerCloseCalls,
                   sdCloseRedisCalls, sdAfterQuit, sdExited, idleOfStop>>

\* processScanJob ends
StopJobEnds ==
    /\ ~sdExited /\ sdJobActive
    /\ sdJobActive' = FALSE
    /\ UNCHANGED <<sdRuns, sdRedis, sdStats, sdTicks, sdWorkerCloseCalls,
                   sdCloseRedisCalls, sdAfterQuit, sdExited, idleOfStop>>

\* process.on('SIGINT', shutdown), process.on('SIGTERM', shutdown): every
\* delivery of either signal calls shutdown(), which runs up to
\* await worker.close()
shutdown ==
    \E kind \in {"SIGINT", "SIGTERM"} :
      /\ ~sdExited
      /\ Len(sdRuns) < MaxSignals
      /\ sdRuns' = Append(sdRuns, [signal |-> kind, pc |-> "closingWorker"])
      /\ sdWorkerCloseCalls' = sdWorkerCloseCalls + 1
      /\ UNCHANGED <<sdJobActive, sdRedis, sdStats, sdTicks, sdCloseRedisCalls,
                     sdAfterQuit, sdExited, idleOfStop>>

\* await worker.close() resolves in an invocation of shutdown once no job is
\* active; the invocation goes on to await closeRedis(), which sends QUIT
closeRedis ==
    \E k \in 1..Len(sdRuns) :
      /\ ~sdExited
      /\ sdRuns[k].pc = "closingWorker"
      /\ ~sdJobActive
      /\ sdRuns' = [sdRuns EXCEPT ![k].pc = "closingRedis"]
      /\ sdCloseRedisCalls' = sdCloseRedisCalls + 1
      /\ sdAfterQuit' = StartedOnClient("quit")
      /\ sdRedis' = IF sdRedis = "open" THEN "quitting" ELSE sdRedis
      /\ UNCHANGED <<sdJobActive, sdStats, sdTicks, sdWorkerCloseCalls, sdExited,
                     idleOfStop>>

\* the first QUIT is answered: the connection is closed, the invocation that
\* sent it logs and calls process.exit(0)
ProcessExit ==
    \E k \in 1..Len(sdRuns) :
      /\ ~sdExited
      /\ sdRuns[k].pc = "closingRedis"
      /\ \A j \in 1..(k - 1) : sdRuns[j].pc # "closingRedis"
      /\ sdRuns' = [sdRuns EXCEPT ![k].pc = "exited"]
      /\ sdRedis' = "closed"
      /\ sdExited' = TRUE
      /\ UNCHANGED <<sdJobActive, sdStats, sdTicks, sdWorkerCloseCalls,
                     sdCloseRedisCalls, sdAfterQuit, idleOfStop>>

\* the setInterval callback fires (the interval is never cleared): it calls
\* getQueueStats(), which sends the five count commands of scanQueue
StatsInterval ==
    /\ ~sdExited
    /\ sdStats = "idle"
    /\ sdTicks < MaxStatsTicks
    /\ sdTicks' = sdTicks + 1
    /\ sdStats' = "getQueueStats"
    /\ sdAfterQuit' = StartedOnClient("getQueueStats")
    /\ UNCHANGED <<sdRuns, sdJobActive, sdRedis, sdWorkerCloseCalls, sdCloseRedisCalls,
                   sdExited, idleOfStop>>

\* getQueueStats() settles: Cache.getStats() sends DBSIZE when it resolved; a
\* rejection (the connection is closing) ends the callback
GetQueueStatsSettles ==
    /\ ~sdExited
    /\ sdStats = "getQueueStats"
    /\ IF "getQueueStats" \in sdAfterQuit
       THEN /\ sdStats' = "idle"
            /\ UNCHANGED sdAfterQuit
       ELSE /\ sdStats' = "dbsize"
            /\ sdAfterQuit' = StartedOnClient("dbsize")
    /\ UNCHANGED <<sdRuns, sdJobActive, sdRedis, sdTicks, sdWorkerCloseCalls,
                   sdCloseRedisCalls, sdExited, idleOfStop>>

\* redis.dbsize() settles: redis.info('memory') follows when it resolved; the
\* catch block of getStats ends the callback otherwise
DbsizeSettles ==
    /\ ~sdExited
    /\ sdStats = "dbsize"
    /\ IF "dbsize" \in sdAfterQuit
       THEN /\ sdStats' = "idle"
            /\ UNCHANGED sdAfterQuit
       ELSE /\ sdStats' = "info"
            /\ sdAfterQuit' = StartedOnClient("info")
    /\ UNCHANGED <<sdRuns, sdJobActive, sdRedis, sdTicks, sdWorkerCloseCalls,
                   sdCloseRedisCalls, sdExited, idleOfStop>>

\* redis.info('memory') settles and the callback prints the status
InfoSettles ==
    /\ ~sdExited
    /\ sdStats = "info"
    /\ sdStats' = "idle"
    /\ UNCHANGED <<sdRuns, sdJobActive, sdRedis, sdTicks, sdWorkerCloseCalls,
                   sdCloseRedisCalls, sdAfterQuit, sdExited, idleOfStop>>

NextStop ==
    \/ StopJobStarts \/ StopJobEnds \/ shutdown \/ closeRedis \/ ProcessExit
    \/ StatsInterval \/ GetQueueStatsSettles \/ DbsizeSettles \/ InfoSettles

SpecStop == InitStop /\ [][NextStop]_vars

(***************************************************************************)
(* Shutdown claim                                                          *)
(***************************************************************************)
\* C40: however many signals arrive, worker.close and closeRedis are each
\* executed at most once, and no cache or queue command, the periodic stats
\* query included, is started on the Redis client after closeRedis has begun.
C40_ShutdownRunsOnce ==
    /\ sdWorkerCloseCalls <= 1
    /\ sdCloseRedisCalls <= 1
    /\ sdAfterQuit \cap {"getQueueStats", "dbsize", "info"} = {}

(***************************************************************************)
(* Request amplification claim                                             *)
(***************************************************************************)
\* C38: for one scan job and one platform, the HTTP requests issued to the
\* platform over all attempts of the job are at most 9, and an attempt that
\* finds markets:<P> in the cache issues none to P.
C38_BoundedRequestAmplification ==
    /\ \A p \in Platforms : TotalRequests(p) <= 9
    /\ \A k \in jaHits : jaRequests[k] = 0

(***************************************************************************)
(* Matcher claims                                                          *)
(***************************************************************************)
\* C11: findMatches returns at most one match per element of A; the marketB of
\* a match passed the pre-filter for its A-market and is an element of B; an
\* A-market with no pre-filtered candidate produces no match.
C11_AtMostOneMatchPerA ==
    /\ Len(mtFrom) = Len(mtMatches)
    /\ \A k \in 1..Len(mtMatches) :
          /\ mtFrom[k] \in 1..mtI
          /\ mtMatches[k].marketA = mtA[mtFrom[k]]
          /\ mtMatches[k].marketB \in SeqToSet(mtB)
          /\ passesPreFilter(mtA[mtFrom[k]], mtMatches[k].marketB)
          /\ preFilterCandidates(mtA[mtFrom[k]], mtB) # <<>>
          /\ \A l \in 1..Len(mtMatches) : mtFrom[l] = mtFrom[k] => l = k

\* two markets of A, one matched and one left without candidates
C11_Witness ==
    /\ mtPc = "done"
    /\ Len(mtA) = 2
    /\ Len(mtMatches) = 1
    /\ \E i \in 1..2 : preFilterCandidates(mtA[i], mtB) = <<>>
    /\ Len(preFilterCandidates(mtA[mtFrom[1]], mtB)) < Len(mtB)

\* C12: every MarketMatch emitted has an integer score with 60 <= score <= 100,
\* matchedBy = fuzzy, and marketA.platform different from marketB.platform.
C12_MatchInvariant ==
    \A k \in 1..Len(mtMatches) :
        /\ mtMatches[k].score \in 60..100
        /\ mtMatches[k].matchedBy = "fuzzy"
        /\ mtMatches[k].marketA.platform # mtMatches[k].marketB.platform

\* the two end dates are instants more than 30 days apart
MoreThan30DaysApart(a, b) ==
    /\ a.endDate.def
    /\ b.endDate.def
    /\ AbsDiff(a.endDate.v, b.endDate.v) > 30 * HoursPerDay

\* C31: the date pre-filter rejects candidate b for target a if and only if
\* both have an endDate and the two instants are more than 30 days apart; a
\* candidate it does not reject, that shares a keyword and has as many
\* outcomes, is among the candidates, and no match pairs two markets more than
\* 30 days apart.
C31_DatePreFilter ==
    /\ \A i \in 1..Len(mtA), j \in 1..Len(mtB) :
          /\ passesDateFilter(mtA[i], mtB[j]) <=> ~MoreThan30DaysApart(mtA[i], mtB[j])
          /\ ( /\ ~MoreThan30DaysApart(mtA[i], mtB[j])
               /\ hasOverlap(mtA[i], mtB[j])
               /\ Len(mtA[i].outcomes) = Len(mtB[j].outcomes) )
             => mtB[j] \in SeqToSet(preFilterCandidates(mtA[i], mtB))
    /\ \A k \in 1..Len(mtMatches) :
          ~MoreThan30DaysApart(mtMatches[k].marketA, mtMatches[k].marketB)

\* a target matched with a market exactly 30 days away, and with a market
\* without end date, while a candidate an hour further away that shares a
\* keyword was rejected
C31_Witness ==
    /\ mtPc = "done"
    /\ \E k \in 1..Len(mtMatches) :
          /\ mtMatches[k].marketA.endDate.def
          /\ mtMatches[k].marketB.endDate.def
          /\ AbsDiff(mtMatches[k].marketA.endDate.v, mtMatches[k].marketB.endDate.v)
                = 30 * HoursPerDay
          /\ \E j \in 1..Len(mtB) :
                /\ MoreThan30DaysApart(mtMatches[k].marketA, mtB[j])
                /\ hasOverlap(mtMatches[k].marketA, mtB[j])
                /\ Len(mtB[j].outcomes) = Len(mtMatches[k].marketA.outcomes)
    /\ \E k \in 1..Len(mtMatches) :
          mtMatches[k].marketA.endDate.def # mtMatches[k].marketB.endDate.def

\* a letter or a digit: neither punctuation nor whitespace
IsLetterOrDigit(c) ==
    c \in SeqToSet(UpperCaseLetters) \cup SeqToSet(LowerCaseLetters) \cup AsciiDigits

\* the keyword set of a title as the claim describes it: punctuation treated as
\* whitespace, lower-cased tokens longer than 2 characters, stop words removed
KeywordSet ==
    [title \in {MatcherPool[i].title : i \in 1..Len(MatcherPool)} |->
        LET lower == toLowerCase(title)
            spaced == [i \in 1..Len(lower) |->
                          IF IsLetterOrDigit(lower[i]) THEN lower[i] ELSE " "]
        IN {w \in SeqToSet(split(spaced)) : Len(w) > 2 /\ w \notin stopWords}]

\* C32: a candidate that survives the pre-filter for a target shares at least
\* one keyword with it; a target whose title has no keyword, or whose
\* candidates' titles all have none, gets no match.
C32_KeywordPreFilter ==
    /\ \A i \in 1..mtI :
          \A b \in SeqToSet(preFilterCandidates(mtA[i], mtB)) :
             KeywordSet[mtA[i].title] \cap KeywordSet[b.title] # {}
    /\ \A k \in 1..Len(mtMatches) :
          /\ KeywordSet[mtMatches[k].marketA.title] # {}
          /\ \E j \in 1..Len(mtB) : KeywordSet[mtB[j].title] # {}

\* no market occurs twice in the list
NoDuplicates(q) == \A i, j \in 1..Len(q) : q[i] = q[j] => i = j

\* C39: in the list returned by findMatches(A, B), for lists without
\* duplicates, no market of B is the marketB of more than one match.
C39_OneToOneOnB ==
    (NoDuplicates(mtA) /\ NoDuplicates(mtB))
       => \A k, l \in 1..Len(mtMatches) :
             mtMatches[k].marketB = mtMatches[l].marketB => k = l

(***************************************************************************)
(* Cache read-through and cache fault claims                               *)
(***************************************************************************)
FetchRecords == {scFetch[i] : i \in 1..Len(scFetch)}

\* C13: for every platform a ScanJob names, a present markets:<P> key means
\* the adapter is not invoked and the cached list is used; an absent key means
\* the platform's adapter is invoked with the job's limit, its result is what
\* the job uses, and that result is stored under markets:<P> with TTL 120 s.
C13_MarketListReadThrough ==
    \A rec \in FetchRecords :
        /\ rec.present => (rec.adapter = "none" /\ rec.used = rec.cached)
        /\ ~rec.present =>
              /\ rec.adapter = rec.platform
              /\ rec.limit = scData.limit
              /\ rec.used = rec.returned
              /\ scPc = "fetched" =>
                    \E e \in cache :
                        /\ e.key = MarketsKey(rec.platform)
                        /\ e.value.markets = rec.used
                        /\ e.ttl = 120 /\ e.expiresAt = now + 120

C35_ScansWithinLimit ==
    scResult.kind = "completed"
        => \A p \in {scData.platformA, scData.platformB} :
              scResult.result.marketsScanned[p] <= scData.limit

\* the entries of a cache other than market lists: results and alert marks
NonMarketEntries(c) == {e \in c : e.key[1] # "markets"}

\* C37: a job attempt that fails because an adapter fetch fails issues no
\* POST, writes or changes no opportunities:latest, scan:results or alert:sent
\* key, reports no progress above 10, and writes at most the markets:<P> key of
\* the other platform of the job.
C37_FailedFetchFrame ==
    [][(scJob' # scJob /\ scResult'.kind = "failed" /\ scResult'.at = "fetch")
          => /\ postCount' = postCount
             /\ okPostAt' = okPostAt
             /\ lastSend' = lastSend
             /\ NonMarketEntries(cache') = NonMarketEntries(cache)
             /\ cache \subseteq cache'
             /\ Cardinality(cache' \ cache) <= 1
             /\ \A e \in cache' \ cache :
                   \E p \in {scData'.platformA, scData'.platformB} :
                      e.key = MarketsKey(p)
             /\ scProgress' <= 10]_vars

\* the second job failed at its fetch after the other platform's list was
\* cached, with the results of the first job still in the cache
C37_Witness ==
    /\ scJob = 2
    /\ scResult.kind = "failed"
    /\ scResult.at = "fetch"
    /\ scProgress = 10
    /\ \E e \in cache : e.key = OpportunitiesKey
    /\ \E e \in cache : e.key = MarketsKey(scData.platformA) /\ e.expiresAt = now + 120
    /\ ~\E e \in cache : e.key = MarketsKey(scData.platformB)

(***************************************************************************)
(* Cache contract claim                                                    *)
(***************************************************************************)
\* C15: Cache key/value contract.  After set(k, v, ttl) and until the first of
\* TTL expiry, delete(k), clear() or a later set(k, ...), get(k) returns v and
\* exists(k) is true; after delete(k), clear() or TTL expiry get(k) returns
\* none and exists(k) is false; an operation on one key leaves every other key
\* as it was (clear excepted).  The calls made are checked through kvLast and
\* every key, touched by the last call or not, through what a get or an
\* exists would return now.
C15_CacheContract ==
    /\ \A k \in KvKeys :
         /\ CacheRead(cache, now, k) = KvExpectedGet(k)
         /\ CacheExists(cache, now, k) = KvLive(k)
    /\ (kvLast.op = "get" => kvLast.value = kvLast.want)
    /\ (kvLast.op = "exists" => kvLast.flag = kvLast.wantFlag)

\* a get returned a falsy value that was set, while the other key had been set
\* and has expired
C15_Witness ==
    /\ kvLast.op = "get"
    /\ kvLast.value = [type |-> "number", text |-> "0"]
    /\ \E j \in KvKeys :
         j # kvLast.key /\ kvExpect[j].set /\ kvExpect[j].until <= now

(***************************************************************************)
(* Cache round-trip claim                                                  *)
(***************************************************************************)
\* C16: cache round-trip of a market list.  Serialising a StandardMarket with
\* Cache.set and rehydrating it with Cache.get followed by deserializeMarkets
\* yields a market equal to the original field by field: same id, platform,
\* title and url, the same decimal price for each outcome, the same instant
\* for endDate and the same decimal liquidity, with or without endDate and
\* liquidity, price 0 and liquidity 0 included.
C16_MarketRoundTrip ==
    rtpPc = "read" =>
      /\ Len(rtpOut) = Len(rtpIn)
      /\ \A i \in 1..Len(rtpIn) :
           /\ rtpOut[i].id = rtpIn[i].id
           /\ rtpOut[i].platform = rtpIn[i].platform
           /\ rtpOut[i].title = rtpIn[i].title
           /\ rtpOut[i].url = rtpIn[i].url
           /\ Len(rtpOut[i].outcomes) = Len(rtpIn[i].outcomes)
           /\ \A o \in 1..Len(rtpIn[i].outcomes) :
                /\ rtpOut[i].outcomes[o].name = rtpIn[i].outcomes[o].name
                /\ rtpOut[i].outcomes[o].price = rtpIn[i].outcomes[o].price
           /\ rtpOut[i].endDate = rtpIn[i].endDate
           /\ rtpOut[i].liquidity = rtpIn[i].liquidity

\* a list read back that holds a market with price 0, liquidity 0 and an
\* endDate, and a market without endDate and liquidity
C16_Witness ==
    /\ rtpPc = "read"
    /\ \E i \in 1..Len(rtpIn) :
         /\ rtpIn[i].outcomes[1].price = DecimalOf(0)
         /\ rtpIn[i].liquidity = DecimalOf(0)
         /\ rtpIn[i].endDate = DateOf(19782, 43200500)
    /\ \E i \in 1..Len(rtpIn) :
         rtpIn[i].endDate = JsUndefined /\ rtpIn[i].liquidity = JsUndefined

(***************************************************************************)
(* Queue and worker claims                                                 *)
(***************************************************************************)
\* a job the worker could take now
ReadyJobs ==
    {j \in quJobs : j.state = "waiting" \/ (j.state = "delayed" /\ j.runAt <= quNow)}

C18_JobRetryPolicy ==
    /\ \A j \in quJobs :
         /\ j.starts <= 3
         /\ (j.state = "failed" => j.starts = 3 /\ j.attemptsMade = 3 /\ j \notin ReadyJobs)
         /\ (j.state = "delayed" /\ j.attemptsMade >= 1
               => /\ j.attemptsMade < 3
                  /\ j.starts = j.attemptsMade
                  /\ j.runAt = j.lastFail + 2000 * Pow2(j.attemptsMade - 1))
         /\ (j.id.kind = "repeat" /\ j.starts >= 1
              /\ (\E r \in quRepeat : r.name = j.id.name /\ r.every = j.id.every)
               => \E k \in quJobs :
                    /\ k.id.kind = "repeat" /\ k.id.name = j.id.name
                    /\ k.id.every = j.id.every /\ k.id.at > j.id.at)
    /\ ((\E j \in quJobs : j.state = "failed") /\ ReadyJobs # {} /\ ActiveJobs = {}
          => ENABLED WorkerTakes)

\* an occurrence of a recurring job is in the failed set after three
\* attempts, the next occurrence of its enrolment waits for its slot, and the
\* worker runs a one-off job
C18_Witness ==
    /\ \E j \in quJobs :
         /\ j.state = "failed" /\ j.id.kind = "repeat" /\ j.starts = 3
         /\ \E k \in quJobs :
              /\ k.state = "delayed" /\ k.id.kind = "repeat" /\ k.id.name = j.id.name
              /\ k.id.every = j.id.every /\ k.id.at > j.id.at
    /\ \E a \in ActiveJobs : a.id.kind = "scan"

\* the most recent addRecurringScanJob call for an enrolment name
LastEnrolCall(name) ==
    LET calls == {i \in 1..Len(quEnrols) : quEnrols[i].name = name} IN
    quEnrols[CHOOSE i \in calls : \A k \in calls : k <= i]

\* C19: recurring enrolment replacement.  After any sequence of
\* addRecurringScanJob calls there is at most one recurring enrolment per
\* (platformA, platformB), and it is the one created by the most recent call
\* for that pair (its interval and its data).
C19_OneEnrolmentPerPair ==
    \A r \in quRepeat :
      /\ \A q \in quRepeat : q.name = r.name => q = r
      /\ r.every = LastEnrolCall(r.name).every
      /\ r.data = LastEnrolCall(r.name).data

\* C20: unique job ids.  Any two addScanJob calls, however close together in
\* time, return handles with distinct job ids, and each call adds its own job
\* to the queue.
C20_UniqueJobIds ==
    /\ \A i \in 1..Len(quAdds) : quAdds[i].added
    /\ \A i, k \in 1..Len(quAdds) : i # k => quAdds[i].id # quAdds[k].id

(***************************************************************************)
(* Alert claims                                                            *)
(***************************************************************************)
CooldownSeconds == alertCfg.cooldownMinutes * 60

\* the call recorded in lastSend fell inside the cooldown window opened by the
\* last successful POST for its pair
InsideWindow ==
    /\ lastSend.prevOk >= 0
    /\ lastSend.time < lastSend.prevOk + CooldownSeconds

\* C1: while the cooldown key written by a successful POST for a pair
\* (marketA.id, marketB.id) has not expired, no further POST is issued for that
\* pair, whether in the same batch or in a later scan job.
C1_AtMostOnePostPerCooldown ==
    (lastSend.posted /\ lastSend.job > 0) => ~InsideWindow

\* a second scan job meets the pair inside the window and issues no POST
C1_Witness ==
    /\ lastSend.job > 1
    /\ ~lastSend.posted
    /\ alertCfg.enabled /\ alertCfg.webhook
    /\ InsideWindow
    /\ postCount >= 1

\* C2: whatever the webhook does (non-2xx, network error, no URL configured),
\* the alert step never fails the job, and the ScanResult returned holds the
\* opportunities, matchesFound and marketsScanned computed before the alerts.
C2_AlertFailureNeverReachesScan ==
    /\ scPc = "failed" => scResult = [kind |-> "failed", at |-> "fetch"]
    /\ scPc = "done" =>
          /\ scResult.kind = "completed"
          /\ scResult.result.opportunities = findArbitrageOpportunities(scMatches)
          /\ scResult.result.matchesFound = Len(scMatches)
          /\ scResult.result.marketsScanned[scData.platformA] = Len(scMarkets.A)
          /\ scResult.result.marketsScanned[scData.platformB] = Len(scMarkets.B)

\* a job completes with its opportunities although its last POST failed
C2_Witness ==
    /\ scPc = "done"
    /\ lastSend.job = scJob
    /\ lastSend.posted /\ lastSend.outcome \in {"non2xx", "networkError"}
    /\ Len(scResult.result.opportunities) > 0

AlertKeys == {e \in cache : e.key[1] = "alert:sent"}

\* C3: a cooldown key exists only as written by a successful POST for its
\* pair, with TTL cooldownMinutes * 60; a failed POST leaves no key; and a send
\* for a pair outside the window of its last successful POST (after a failure
\* or after expiry) issues a POST.
C3_CooldownKeyLifecycle ==
    /\ \A e \in AlertKeys :
          /\ e.ttl = CooldownSeconds
          /\ okPostAt[<<e.key[2], e.key[3]>>] >= 0
          /\ e.expiresAt = okPostAt[<<e.key[2], e.key[3]>>] + CooldownSeconds
    /\ (lastSend.posted /\ lastSend.outcome # "ok") =>
          ~CacheHas(cache, now, AlertSentKey(lastSend.pair[1], lastSend.pair[2]))
    /\ (lastSend.job > 0 /\ alertCfg.enabled /\ alertCfg.webhook /\ ~InsideWindow) =>
          lastSend.posted

\* the pair is posted again, successfully, once the key of an earlier POST expired
C3_Witness ==
    /\ lastSend.posted /\ lastSend.outcome = "ok"
    /\ lastSend.prevOk >= 0
    /\ lastSend.time >= lastSend.prevOk + CooldownSeconds
    /\ \E e \in AlertKeys : e.expiresAt = lastSend.time + CooldownSeconds

\* the two bounds of the alert threshold, on an opportunity of the scan
Qualifies(o) ==
    /\ o.roi.inf \/ DecIntPart(DecTimes100(o.roi)) >= alertCfg.minProfitPercent
    /\ o.profitMargin >= alertCfg.minProfitAmount

DefaultThresholds(cfg) ==
    cfg.minProfitPercent = 5 /\ cfg.minProfitAmount = 10 * ONE

\* what the calculator returns for the binary pairs whose prices are 0, 0.49
\* or 1, on any two platforms, each pair on its own
BoundaryOpportunities ==
    LET prices == {Cents(0), Cents(49), Cents(100)}
        vectors == {<<p, q>> : p \in prices, q \in prices}
    IN UNION {SeqToSet(findArbitrageOpportunities(
                          <<Match(Market("a1", pa, va), Market("b1", pb, vb))>>)) :
                 pa \in Platforms, pb \in Platforms, va \in vectors, vb \in vectors}

\* an opportunity's margin is above 0, at most 1, and below the default bound
MarginWithinPayout(o) ==
    /\ o.profitMargin > 0
    /\ o.profitMargin <= ONE
    /\ \A cfg \in AlertConfigs : DefaultThresholds(cfg) => ~meetsAlertThreshold(cfg, o)

BoundaryMargins == \A o \in BoundaryOpportunities : MarginWithinPayout(o)

C36_CooldownSurvivesCacheFaults ==
    \A p \in AllPairs :
        (lastSend # NoSend /\ lastSend.pair = p /\ lastSend.posted /\ okPostAt[p] >= 0)
            => \/ lastSend.prevOk < 0
               \/ lastSend.time >= lastSend.prevOk + alertCfg.cooldownMinutes * 60

(***************************************************************************)
(* Calculator claims                                                       *)
(***************************************************************************)
\* the fee rates the emission rule names, in hundredths
RuleRate(platform) ==
    CASE platform = "POLYMARKET" -> 2
      [] platform = "KALSHI" -> 7
      [] platform = "MANIFOLD" -> 0
      [] OTHER -> 0

\* priceA + priceB + priceA*rateA + priceB*rateB, in units of 10^-6
RuleNetCost(m, ia, ib) ==
    LET pa == m.marketA.outcomes[ia].price
        pb == m.marketB.outcomes[ib].price
    IN pa * 100 + pb * 100 + pa * RuleRate(m.marketA.platform)
                           + pb * RuleRate(m.marketB.platform)

IsBinaryMatch(m) == Len(m.marketA.outcomes) = 2 /\ Len(m.marketB.outcomes) = 2

Directions == {<<1, 2>>, <<2, 1>>}

\* the returned list holds an opportunity for direction d of match m
Emitted(result, m, d) ==
    \E k \in 1..Len(result) :
        /\ result[k].marketA = m.marketA
        /\ result[k].marketB = m.marketB
        /\ result[k].outcomeA = m.marketA.outcomes[d[1]].name
        /\ result[k].outcomeB = m.marketB.outcomes[d[2]].name
        /\ result[k].priceA = m.marketA.outcomes[d[1]].price
        /\ result[k].priceB = m.marketB.outcomes[d[2]].price

\* how many (match, direction) pairs of the input satisfy the emission rule
RuleCount(matches) ==
    Cardinality({<<i, d>> \in (1..Len(matches)) \X Directions :
                    /\ IsBinaryMatch(matches[i])
                    /\ RuleNetCost(matches[i], d[1], d[2]) < ONE * 100})

\* C4: for a binary match and each buy-direction an opportunity is returned
\* iff priceA + priceB + priceA*rateA + priceB*rateB < 1 (PM 0.02, KAL 0.07,
\* MAN 0); a match with a non-binary market yields nothing; nothing else is
\* returned.
C4_EmissionRule ==
    calcPc = "done" =>
        /\ \A i \in 1..Len(calcMatches) :
             LET m == calcMatches[i] IN
               IF IsBinaryMatch(m)
               THEN \A d \in Directions :
                       Emitted(calcResult, m, d)
                          <=> (RuleNetCost(m, d[1], d[2]) < ONE * 100)
               ELSE \A k \in 1..Len(calcResult) :
                       ~(calcResult[k].marketA = m.marketA
                           /\ calcResult[k].marketB = m.marketB)
        /\ Len(calcResult) = RuleCount(calcMatches)

\* a finished run over two matches, one direction emitted, and a direction
\* whose base cost is below 1 but whose fees lift the net cost to 1 or above
C4_Witness ==
    /\ calcPc = "done"
    /\ Len(calcMatches) = 2
    /\ Len(calcResult) = 1
    /\ \E i \in 1..Len(calcMatches) : \E d \in Directions :
          LET m == calcMatches[i] IN
            /\ IsBinaryMatch(m)
            /\ m.marketA.outcomes[d[1]].price + m.marketB.outcomes[d[2]].price < ONE
            /\ RuleNetCost(m, d[1], d[2]) >= ONE * 100

\* C5: every returned opportunity satisfies totalCost = priceA + priceB,
\* feesX = priceX * rateX, totalFees = feesA + feesB, netCost = totalCost +
\* totalFees, profitMargin = 1 - netCost, isProfitable = (profitMargin > 0),
\* netCost > 0 and roi * netCost = profitMargin * 100.
C5_FieldIdentities ==
    calcPc = "done" =>
        \A k \in 1..Len(calcResult) :
            LET o == calcResult[k] IN
              /\ o.totalCost = o.priceA + o.priceB
              /\ o.feesA * 100 = o.priceA * RuleRate(o.marketA.platform)
              /\ o.feesB * 100 = o.priceB * RuleRate(o.marketB.platform)
              /\ o.totalFees = o.feesA + o.feesB
              /\ o.netCost = o.totalCost + o.totalFees
              /\ o.profitMargin = ONE - o.netCost
              /\ o.isProfitable = (o.profitMargin > 0)
              /\ o.netCost > 0
              /\ DecTimesInt(o.roi, o.netCost) = DecOfInt(o.profitMargin * 100)

(***************************************************************************)
(* Retry and error-taxonomy claims                                         *)
(***************************************************************************)
\* the classified error attempt k of the driver ended with
AttemptError(k) == operation(rtOpts.platform, rtRaws[k], k).error
AttemptFailed(k) == ~operation(rtOpts.platform, rtRaws[k], k).ok

\* attempt k was followed by another attempt (or the driver is about to make one)
Retried(k) == k < Len(rtRaws) \/ (k = Len(rtRaws) /\ rtPc = "call")

IsTimeoutOr5xxOr429(raw) ==
    raw.kind = "timeout" \/ (raw.kind = "http" /\ (raw.status >= 500 \/ raw.status = 429))

\* ... and with the failures that never got an HTTP response added
IsTransportOr5xxOr429(raw) == IsTimeoutOr5xxOr429(raw) \/ raw.kind = "network"

C8_ValidationFailureSurfaces ==
    (rtOpts.shouldRetry = "adapter" /\ Len(rtRaws) >= 1
        /\ rtRaws[Len(rtRaws)].kind = "badSchema") =>
        /\ rtPc = "threw"
        /\ rtOutcome.error.cls = "ValidationError"
        /\ rtOutcome.error.data = BadPayload

\* RateLimitError.getRetryDelay(): retryAfter seconds in ms, 60000 without one
getRetryDelay(e) == IF e.retryAfter # 0 THEN e.retryAfter * 1000 ELSE 60000

\* an adapter's call of the driver: maxRetries 3, initialDelay 1000,
\* maxDelay 10000 and the adapters' shouldRetry predicate
AdapterRetryCall ==
    /\ rtOpts.maxRetries = 3
    /\ rtOpts.initialDelay = 1000
    /\ rtOpts.maxDelay = 10000
    /\ rtOpts.shouldRetry = "adapter"

\* the first attempt met 429 with Retry-After: 2 and the second one succeeded
RateLimitedThenOk ==
    /\ Len(rtRaws) = 2
    /\ rtRaws[1].kind = "http" /\ rtRaws[1].status = 429 /\ rtRaws[1].retryAfter = 2
    /\ rtRaws[2].kind = "ok"

\* C28: when an adapter's first HTTP attempt gets 429 with Retry-After: 2 and
\* the second attempt succeeds, the driver sleeps the error's suggested delay
\* (2000 ms) between the two attempts, makes exactly 2 attempts and returns the
\* second attempt's result.
C28_RetryAfterHonoured ==
    (AdapterRetryCall /\ RateLimitedThenOk) =>
        /\ rtPc = "returned"
        /\ rtOutcome.value = 2
        /\ rtSleeps = <<getRetryDelay(AttemptError(1))>>

(***************************************************************************)
(* Adapter claims                                                          *)
(***************************************************************************)
\* C9: a single-market fetch returns null if and only if the platform answered
\* HTTP 404; every other failure surfaces as a thrown classified error.
C9_NullIffNotFound ==
    (adPc = "done" /\ adCall.op = "fetchOne") =>
        /\ (adResult.kind = "null") <=> (adRaw.kind = "http" /\ adRaw.status = 404)
        /\ (adRaw.kind # "ok" /\ ~(adRaw.kind = "http" /\ adRaw.status = 404))
              => adResult.kind = "threw"

ValidStandardMarket(m) ==
    /\ Len(m.outcomes) = 2
    /\ \A i \in 1..Len(m.outcomes) : m.outcomes[i].price >= 0 /\ m.outcomes[i].price <= ONE
    /\ m.id # ""
    /\ m.title # ""

\* C10: for a schema-valid response every StandardMarket an adapter returns has
\* exactly two outcomes, each price within [0,1], and non-empty id and title.
C10_AdapterOutputInvariant ==
    (adPc = "done" /\ adResult.kind \in {"markets", "market"}) =>
        \A i \in 1..Len(adResult.markets) : ValidStandardMarket(adResult.markets[i])

\* a fetchMarkets call of a platform has returned from a schema-valid response
FetchedValid(platform) ==
    /\ adPc = "done"
    /\ adCall.op = "fetchMarkets"
    /\ adCall.platform = platform
    /\ adRaw.kind = "ok"

\* a Kalshi item with both ask sides present
BothAsksPresent(item) ==
    item.market_type = "binary" /\ item.yes_ask.def /\ item.no_ask.def

\* the market of such an item: YES at yes_ask / 100, NO at no_ask / 100
MarketOfAsks(item) ==
    StandardMarket(item.ticker, "KALSHI", item.title, <<"YES", "NO">>,
                   <<Cents(item.yes_ask.v), Cents(item.no_ask.v)>>)

\* C29: from a schema-valid response the Kalshi adapter returns a market if
\* and only if it is binary and both yes_ask and no_ask are present (an ask of
\* 0 cents counts as present), with YES.price = yes_ask/100 and
\* NO.price = no_ask/100; a market lacking an ask side is never returned with
\* a substituted price.
C29_KalshiFilterAndConvert ==
    FetchedValid("KALSHI") =>
        /\ adResult.kind = "markets"
        /\ adResult.markets = MapSeq(MarketOfAsks, SelectSeq(adPayload, BothAsksPresent))

\* a Manifold item that is BINARY, not resolved and has a defined probability
BinaryOpenWithProbability(item) ==
    item.outcomeType = "BINARY" /\ ~item.isResolved /\ item.probability.def

\* C30: from a schema-valid response the Manifold adapter returns, in response
\* order, the first at most `limit` markets that are BINARY, not resolved and
\* have a defined probability p, with Yes.price = p and No.price = 1 - p for
\* every p in [0,1], p = 0 and p = 1 included; never more than `limit` entries.
C30_ManifoldFilterAndConvert ==
    FetchedValid("MANIFOLD") =>
        LET kept == Take(SelectSeq(adPayload, BinaryOpenWithProbability), adCall.limit) IN
        /\ adResult.kind = "markets"
        /\ Len(adResult.markets) <= adCall.limit
        /\ Len(adResult.markets) = Len(kept)
        /\ \A i \in 1..Len(kept) :
              LET p == kept[i].probability.v
                  m == adResult.markets[i]
              IN /\ m.id = kept[i].id
                 /\ m.title = kept[i].question
                 /\ (p >= 0 /\ p <= ONE) =>
                       /\ m.outcomes[1].name = "Yes" /\ m.outcomes[1].price = p
                       /\ m.outcomes[2].name = "No" /\ m.outcomes[2].price = ONE - p

(***************************************************************************)
(* Scheduler, worker and alert batch claims                                *)
(***************************************************************************)
\* the connection Cache uses, and the connections of scanQueue and queueEvents
CacheConnection == "redis"
QueueConnections == {"redis", "queueEvents"}

\* C21: on SIGINT or SIGTERM no new job becomes active after the signal; an
\* in-flight job runs to completion (or aborts) before the cache connection is
\* closed, so it never issues a cache or queue command on a closed connection;
\* and the queue connections and the cache connection have been closed before
\* the process exits.
C21_GracefulShutdown ==
    /\ shSignal.kind # "none" => wkJobs = shSignal.jobs
    /\ CacheConnection \notin cnOpen => wkPc = 0
    /\ ~wkOnClosed
    /\ shPc = "exited" =>
          /\ CacheConnection \notin cnOpen
          /\ QueueConnections \cap cnOpen = {}

\* the inter-message gap of a batch (ms)
InterMessageGap == pacingDelay(1 + 1)

\* C23: sendAlerts dispatches the opportunities one at a time in list order,
\* never has two webhook POSTs in flight at once, and lets at least 2000 ms
\* elapse between the end of a POST and the start of the next POST of the
\* same batch.
C23_AlertPacing ==
    \A k \in 1..Len(wkPosts) :
        /\ wkPosts[k].idx >= 1 /\ wkPosts[k].idx <= wkBatch
        /\ k < Len(wkPosts) =>
              /\ wkPosts[k].idx < wkPosts[k + 1].idx
              /\ wkPosts[k].end >= wkPosts[k].start
              /\ wkPosts[k + 1].start >= wkPosts[k].end + 2000

\* a batch of two, both POSTed, the first POST taking 300 ms and the timer
\* firing on time
C23_Witness ==
    /\ wkBatch = 2
    /\ wkAlert = "none"
    /\ Len(wkPosts) = 2
    /\ wkPosts[1].end = wkPosts[1].start + 300
    /\ wkPosts[2].start = wkPosts[1].end + 2000
    /\ wkPosts[2].end >= wkPosts[2].start

\* C24: if shutdown is requested while sendAlerts works through a batch of
\* several opportunities, no webhook POST of that batch is issued later than
\* one inter-message gap (2000 ms) after the request.
C24_BatchCancellation ==
    shSignal.inBatch =>
        \A k \in 1..Len(wkPosts) : wkPosts[k].start <= shSignal.at + InterMessageGap

\* position of an event in the log of the attempt (0: not there)
Pos(event) ==
    IF \E i \in 1..Len(wkLog) : wkLog[i] = event
    THEN CHOOSE i \in 1..Len(wkLog) : wkLog[i] = event
    ELSE 0
InLog(event) == Pos(event) > 0
\* b happened only after a
Before(a, b) == InLog(b) => (InLog(a) /\ Pos(a) < Pos(b))

\* the progress values reported by the attempt, in order
ReportedProgress ==
    LET reports == SelectSeq(wkLog, LAMBDA ev : ev \in ProgressSteps)
    IN [i \in 1..Len(reports) |-> ProgressOf(reports[i])]

\* C25: during one attempt of processScanJob the reported progress values are
\* 10, 40, 70, 90, 100 in that order; 10 is reported before any fetch starts,
\* 40 only after both fetches have finished, 70 only after matching, 90 only
\* after the calculation, and 100 only after both result keys have been
\* cached and the alert dispatch has finished.
C25_ProgressMilestones ==
    /\ Len(ReportedProgress) <= 5
    /\ ReportedProgress = SubSeq(<<10, 40, 70, 90, 100>>, 1, Len(ReportedProgress))
    /\ wkOutcome = "completed" => Len(ReportedProgress) = 5
    /\ Before("progress10", "fetchStartA") /\ Before("progress10", "fetchStartB")
    /\ Before("fetchEndA", "progress40") /\ Before("fetchEndB", "progress40")
    /\ Before("matched", "progress70")
    /\ Before("calculated", "progress90")
    /\ Before("cachedLatest", "progress100") /\ Before("cachedResults", "progress100")
    /\ InLog("progress100") =>
          /\ wkAlert = "none"
          /\ InLog("alertsStart") => Before("alertsEnd", "progress100")
          /\ wkBatch > 0 => InLog("alertsEnd")

\* a completed attempt that dispatched a batch of two
C25_Witness ==
    /\ wkOutcome = "completed"
    /\ wkBatch = 2
    /\ Len(wkPosts) >= 1
    /\ ReportedProgress = <<10, 40, 70, 90, 100>>

\* C26: inside one job both fetches complete before matching starts, matching
\* completes before the calculation, the calculation before the results are
\* cached under opportunities:latest and scan:results:<now>, and the results
\* are cached before the alertable opportunities are handed to the dispatcher.
C26_StepOrder ==
    /\ Before("fetchEndA", "matched") /\ Before("fetchEndB", "matched")
    /\ Before("matched", "calculated")
    /\ Before("calculated", "cachedLatest") /\ Before("calculated", "cachedResults")
    /\ Before("cachedLatest", "alertsStart") /\ Before("cachedResults", "alertsStart")

(***************************************************************************)
(* Orchestrator claim                                                      *)
(***************************************************************************)
\* an opportunity without its timestamp
OpportunitySet(run) == {run.opportunities[i].opp : i \in 1..Len(run.opportunities)}

\* two runs for the same pair that both found both platforms' lists in the
\* cache, and the same lists
SameCachedInputs(r1, r2) ==
    /\ r1.read.data.platformA = r2.read.data.platformA
    /\ r1.read.data.platformB = r2.read.data.platformB
    /\ r1.read.hitA /\ r1.read.hitB /\ r2.read.hitA /\ r2.read.hitB
    /\ r1.read.markets = r2.read.markets

====
